---- MODULE Spec2Model ----
(***************************************************************************)
(* State-machine model of the iSCSI sharing plugin                         *)
(* (src/middlewared/middlewared/plugins/iscsi.py): the datastore tables    *)
(* the CRUD services read and write, and one action per service method.    *)
(* A service method is one action: all the datastore calls and the         *)
(* service-reload notification it makes happen inside the action, and the  *)
(* calls are recorded, in order, in last.trace. The creates of portals and *)
(* of Associations are also modelled one datastore call at a time, for two *)
(* callers at once; `pending` holds where each of them stands.             *)
(***************************************************************************)
EXTENDS Integers, Sequences, FiniteSets, TLC

VARIABLES
    portal,          \* rows of services.iscsitargetportal
    portalip,        \* rows of services.iscsitargetportalip
    auth,            \* rows of services.iscsitargetauthcredential
    initiator,       \* rows of services.iscsitargetauthorizedinitiator
    target,          \* rows of services.iscsitarget
    groups,          \* rows of services.iscsitargetgroups
    extent,          \* rows of services.iscsitargetextent
    targettoextent,  \* rows of services.iscsitargettoextent
    files,           \* paths of the regular files that exist on disk
    sessions,        \* qualified target names with a live session
    system_ips,      \* addresses configured on the system's interfaces
    service_started, \* whether the iscsitarget service is running
    last,            \* the call made last: method, arguments, outcome, trace
    nops,            \* number of service calls made so far
    pending          \* the calls in flight: where each caller's method stands

vars == <<portal, portalip, auth, initiator, target, groups, extent,
          targettoextent, files, sessions, system_ips, service_started,
          last, nops, pending>>

tables == <<portal, portalip, auth, initiator, target, groups, extent,
            targettoextent>>

env == <<files, sessions, system_ips, service_started>>

-----------------------------------------------------------------------------
(* Bounds of the model. *)

MaxPortals == 2
MaxAssocs == 3
MaxLuns == 4
MaxTargets == 2
MaxOps == 2

(* None, for the nullable integer columns and arguments. *)
NULL == -1

(* None, for the nullable string columns and arguments. *)
NullStr == "<None>"

(* The value domains the arguments are drawn from. *)
ListenPairs ==
    {[ip |-> "0.0.0.0", port |-> 3260],
     [ip |-> "10.0.0.1", port |-> 3260],
     [ip |-> "10.0.0.1", port |-> 3261],
     [ip |-> "10.0.0.9", port |-> 3260]}

-----------------------------------------------------------------------------
(* Helpers of the datastore collaborator. *)

Ids(table) == {r.id : r \in table}

(* datastore.insert returns the primary key of the new row: a key no row   *)
(* of the table carries.                                                    *)
NewId(table) ==
    LET ids == Ids(table)
    IN CHOOSE i \in 1..(Cardinality(ids) + 1) : i \notin ids

Row(table, id) == CHOOSE r \in table : r.id = id

Repeat(ev, n) == [i \in 1..n |-> ev]

(* The truth value Python gives an optional integer: None and 0 are false. *)
Truthy(v) == v # NULL /\ v # 0

(* ValidationErrors.add(field, message) *)
Err(field, msg) == <<field, msg>>

(* What `last` records of a call: the method, the id it was given or gave, *)
(* its arguments, the validation errors, the exception raised ("none" when *)
(* it returned) and the datastore and notifier calls it made, in order.    *)
Call(op, id, args, verrors, raised, trace) ==
    [op |-> op, id |-> id, args |-> args, verrors |-> verrors,
     raised |-> raised, trace |-> trace]

NoArgs == [none |-> TRUE]

NoCall == Call("none", NULL, NoArgs, {}, "none", <<>>)

(* The callers whose methods may be in flight together, and a caller with  *)
(* no method in flight.                                                    *)
Procs == {1, 2}

Idle == [pc |-> "idle"]

NoPending == [p \in Procs |-> Idle]

-----------------------------------------------------------------------------
(* ISCSIPortalService *)

AUTHMETHOD_LEGACY_MAP_inv(m) ==
    CASE m = "NONE" -> "None"
      [] m = "CHAP" -> "CHAP"
      [] m = "CHAP_MUTUAL" -> "CHAP Mutual"
      [] OTHER -> "None"

AUTHMETHOD_LEGACY_MAP(m) ==
    CASE m = "None" -> "NONE"
      [] m = "CHAP" -> "CHAP"
      [] m = "CHAP Mutual" -> "CHAP_MUTUAL"

(* listen_ip_choices: the wildcard addresses and the configured ones. *)
listen_ip_choices == {"0.0.0.0", "::"} \cup system_ips

(* config_extend: the listen pairs stored for a portal. *)
PortalListen(ips, pk) ==
    {[ip |-> r.ip, port |-> r.port] : r \in {x \in ips : x.portal = pk}}

(* A row of services.iscsitargetportalip. The table has a unique index on *)
(* (ip, port), so a row is identified by its pair and the surrogate key is *)
(* left out.                                                               *)
PortalIPRow(pk, i) == [portal |-> pk, ip |-> i.ip, port |-> i.port]

(* PortalInUse with the update's own rows excluded by a filter that also  *)
(* drops every other portal's rows.                                        *)
PortalInUseCreateOnly(i, schema, pk) ==
    \E r \in portalip :
        /\ r.ip = i.ip
        /\ r.port = i.port
        /\ schema # "iscsiportal_update"

(* The query of __validate for a listen pair already stored. *)
PortalInUse(i, schema, pk) ==
    \E r \in portalip :
        /\ r.ip = i.ip
        /\ r.port = i.port
        /\ (schema = "iscsiportal_update" => r.portal # pk)

(* The message of __validate for an address the system does not have. *)
NotConfigured(ip) == "IP " \o ip \o " not configured on this system."

(* ISCSIPortalService.__validate; has_old is FALSE when old is None. *)
PortalValidate(data, schema, pk, has_old, old_listen) ==
    LET new_ips == IF has_old
                   THEN {i.ip : i \in data.listen} \ {i.ip : i \in old_listen}
                   ELSE {}
        listen_errs ==
            IF data.listen = {}
            THEN {Err("listen", "required")}
            ELSE {Err("listen", "in use") :
                      i \in {j \in data.listen : PortalInUse(j, schema, pk)}}
                 \cup
                 {Err("listen", NotConfigured(i.ip)) :
                      i \in {j \in data.listen :
                                /\ (j.ip \in new_ips \/ new_ips = {})
                                /\ j.ip \notin listen_ip_choices}}
        auth_errs ==
            IF Truthy(data.discovery_authgroup)
            THEN IF \E a \in auth : a.tag = data.discovery_authgroup
                 THEN {}
                 ELSE {Err("discovery_authgroup", "not found")}
            ELSE IF data.discovery_authmethod \in {"CHAP", "CHAP_MUTUAL"}
                 THEN {Err("discovery_authgroup", "required")}
                 ELSE {}
    IN listen_errs \cup auth_errs

(* The tag do_create gives a new portal. *)
PortalNewTag == Cardinality(portal) + 1

(* The datastore row do_create and do_update write for a portal. *)
PortalRow(pk, tag, data) ==
    [id |-> pk, tag |-> tag,
     discoveryauthmethod |-> AUTHMETHOD_LEGACY_MAP_inv(data.discovery_authmethod),
     discoveryauthgroup |-> data.discovery_authgroup]

(* ISCSIPortalService.do_create. `done` is the part of the listen list     *)
(* __save_listen had inserted when a datastore call failed; it is the      *)
(* whole list when none failed.                                            *)
PortalCreate(data, done) ==
    LET verrors == PortalValidate(data, "iscsiportal_create", NULL, FALSE, {})
        pk == NewId(portal)
        inserted == {PortalIPRow(pk, i) : i \in done}
    IN
    /\ done \subseteq data.listen
    /\ IF verrors # {}
       THEN /\ last' = Call("portal.create", NULL, data, verrors,
                            "ValidationErrors", <<>>)
            /\ UNCHANGED <<portal, portalip>>
       ELSE IF done # data.listen
       THEN \* a datastore.insert of __save_listen raised: the parent row is
            \* deleted again and the exception re-raised
            /\ portalip' = portalip \cup inserted
            /\ portal' = portal
            /\ last' = Call("portal.create", pk, data, {}, "Exception",
                            <<"portal.insert">>
                            \o Repeat("portalip.insert", Cardinality(done))
                            \o <<"portalip.insert failed", "portal.delete">>)
       ELSE /\ portal' = portal \cup {PortalRow(pk, PortalNewTag, data)}
            /\ portalip' = portalip \cup inserted
            /\ last' = Call("portal.create", pk, data, {}, "none",
                            <<"portal.insert">>
                            \o Repeat("portalip.insert", Cardinality(done))
                            \o <<"reload">>)
    /\ UNCHANGED <<auth, initiator, target, groups, extent, targettoextent>>
    /\ UNCHANGED env

(* save_listen with the loop over the pairs no longer listed left out. *)
save_listen_keeps_old(ips, pk, new, old) ==
    ips \cup {PortalIPRow(pk, i) : i \in new \ old}

(* ISCSIPortalService.__save_listen: the table after the pairs of `new`    *)
(* not in `old` are inserted for portal pk and the pairs of `old` not in   *)
(* `new` are deleted from its rows.                                        *)
save_listen(ips, pk, new, old) ==
    (ips \cup {PortalIPRow(pk, i) : i \in new \ old})
    \ {PortalIPRow(pk, i) : i \in old \ new}

(* PortalKeptTag with the tag worked out as do_create does. *)
PortalKeptTagCounted(old) == PortalNewTag

(* do_update: new = old.copy() carries the tag of the stored portal, which *)
(* the update schema has no field for, into the row that is written.       *)
PortalKeptTag(old) == old.tag

(* ISCSIPortalService.do_update. A field the caller leaves out keeps its   *)
(* old value (new = old.copy(); new.update(data)), so `data` is the merged *)
(* record.                                                                 *)
PortalUpdate(pk, data) ==
    LET old == Row(portal, pk)
        old_listen == PortalListen(portalip, pk)
        verrors == PortalValidate(data, "iscsiportal_update", pk, TRUE, old_listen)
        to_insert == data.listen \ old_listen
        to_delete == old_listen \ data.listen
    IN
    /\ pk \in Ids(portal)
    /\ IF verrors # {}
       THEN /\ last' = Call("portal.update", pk, data, verrors,
                            "ValidationErrors", <<>>)
            /\ UNCHANGED <<portal, portalip>>
       ELSE /\ portalip' = save_listen(portalip, pk, data.listen, old_listen)
            /\ portal' = (portal \ {old}) \cup {PortalRow(pk, PortalKeptTag(old), data)}
            /\ last' = Call("portal.update", pk, data, {}, "none",
                            Repeat("portalip.insert", Cardinality(to_insert))
                            \o Repeat("portalip.delete", Cardinality(to_delete))
                            \o <<"portal.update", "reload">>)
    /\ UNCHANGED <<auth, initiator, target, groups, extent, targettoextent>>
    /\ UNCHANGED env

(* Renumber with the loop index used as the tag, not index + 1. *)
RenumberFromZero(rest, f) ==
    /\ f \in [Ids(rest) -> 0..(Cardinality(rest) - 1)]
    /\ \A p, q \in rest : p.tag < q.tag => f[p.id] < f[q.id]
    /\ \A p, q \in rest : p.id # q.id => f[p.id] # f[q.id]

(* The renumbering loop of do_delete: f gives each remaining portal its    *)
(* place, from 1, in the query ordered by tag.                             *)
Renumber(rest, f) ==
    /\ f \in [Ids(rest) -> 1..Cardinality(rest)]
    /\ \A p, q \in rest : p.tag < q.tag => f[p.id] < f[q.id]
    /\ \A p, q \in rest : p.id # q.id => f[p.id] # f[q.id]

(* PortalGroupRows with no row found. *)
PortalGroupRowsNone(id) == {}

(* do_delete: the group rows of the portal. *)
PortalGroupRows(id) == {g \in groups : g.portal = id}

(* ISCSIPortalService.do_delete *)
PortalDelete(id) ==
    LET rest == {p \in portal : p.id # id}
    IN
    /\ id \in Ids(portal)
    /\ groups' = groups \ PortalGroupRows(id)
    /\ portalip' = {r \in portalip : r.portal # id}
    /\ \E f \in [Ids(rest) -> 0..Cardinality(rest)] :
          /\ Renumber(rest, f)
          /\ portal' = {[p EXCEPT !.tag = f[p.id]] : p \in rest}
    /\ last' = Call("portal.delete", id, NoArgs, {}, "none",
                    <<"groups.delete", "portalip.delete", "portal.delete">>
                    \o Repeat("portal.update", Cardinality(rest))
                    \o <<"reload">>)
    /\ UNCHANGED <<auth, initiator, target, extent, targettoextent>>
    /\ UNCHANGED env

-----------------------------------------------------------------------------
(* iSCSITargetService: the part the other services call. *)

(* iscsi.global.config()['basename'] *)
Basename == "iqn.2005-10.org.freenas.ctl"

(* The target names of the model that start with 'iqn.', 'naa.' or 'eui.'. *)
PrefixedNames == {"iqn.2005-10.org.freenas.ctl:t1"}

(* The name a target is served under: active_sessions_for_targets. *)
QualifiedName(name) ==
    IF name \in PrefixedNames THEN name ELSE Basename \o ":" \o name

(* active_sessions_for_targets with the names left as stored. *)
ActiveSessionsUnqualified(target_id_list) ==
    {t.name : t \in {x \in target : x.id \in target_id_list}} \cap sessions

(* iSCSITargetService.active_sessions_for_targets *)
active_sessions_for_targets(target_id_list) ==
    {QualifiedName(t.name) : t \in {x \in target : x.id \in target_id_list}}
        \cap sessions

-----------------------------------------------------------------------------
(* iSCSITargetToExtentService *)

lun_map_size == 16383

TeRow(id, tgt, ext, lunid) ==
    [id |-> id, target |-> tgt, extent |-> ext, lunid |-> lunid]

(* The table without its unique index. *)
TeNoIndex(tes, row) == TRUE

(* The unique index of services.iscsitargettoextent on (target, extent):   *)
(* whether the table accepts `row`, new or rewritten.                      *)
TeIndexOk(tes, row) ==
    ~\E r \in tes : r.id # row.id /\ r.target = row.target /\ r.extent = row.extent

Max(S) == CHOOSE m \in S : (m + 1) \notin S /\ \A x \in S : x <= m

Min(S) == CHOOSE m \in S : \A x \in S : m <= x

(* AllocLun without the gap search: always one past the highest LUN. *)
AllocLunNoGap(lunids) == IF lunids = {} THEN 0 ELSE Max(lunids) + 1

(* The LUN validate gives an Association created without one: lunids are   *)
(* the LUNs of the target, which the code reads in ascending order.        *)
AllocLun(lunids) ==
    IF lunids = {}
    THEN 0
    ELSE LET diff == (0..Max(lunids)) \ lunids
         IN IF diff # {} THEN Min(diff) ELSE Max(lunids) + 1

TargetLuns(tes, tgt) == {r.lunid : r \in {x \in tes : x.target = tgt}}

(* The LUN validate settles on: the one given, or the one allocated. *)
TeLun(data) ==
    IF data.lunid = NULL
    THEN AllocLun(TargetLuns(targettoextent, data.target))
    ELSE data.lunid

(* The first query of validate: the LUN is taken on the target. *)
TeLunTaken(lunid, data, has_old, old) ==
    /\ (IF has_old THEN old.lunid ELSE NULL) # lunid
    /\ \E r \in targettoextent : r.lunid = lunid /\ r.target = data.target

(* The second query of validate: the extent is already in the target. *)
TePairTaken(data, has_old, old) ==
    /\ (IF has_old THEN old.target ELSE NULL) # data.target
    /\ \E r \in targettoextent : r.target = data.target /\ r.extent = data.extent

(* TeLunOutOfRange with lun_map_size taken for the highest LUN. *)
TeLunOutOfRangeByOne(lunid) == lunid < 0 \/ lunid > lun_map_size

(* validate: the LUN is not in the LUN map. *)
TeLunOutOfRange(lunid) == lunid < 0 \/ lunid > lun_map_size - 1

(* iSCSITargetToExtentService.validate: the errors. *)
TeValidate(data, has_old, old) ==
    LET lunid == TeLun(data)
    IN (IF TeLunOutOfRange(lunid)
        THEN {Err("lunid", "out of range")} ELSE {})
       \cup
       (IF TeLunTaken(lunid, data, has_old, old)
        THEN {Err("lunid", "in use")} ELSE {})
       \cup
       (IF TePairTaken(data, has_old, old)
        THEN {Err("target", "extent in target")} ELSE {})

(* iSCSITargetToExtentService.do_create *)
TeCreate(data) ==
    LET verrors == TeValidate(data, FALSE, data)
        row == TeRow(NewId(targettoextent), data.target, data.extent, TeLun(data))
    IN
    /\ IF verrors # {}
       THEN /\ last' = Call("targetextent.create", NULL, data, verrors,
                            "ValidationErrors", <<>>)
            /\ UNCHANGED targettoextent
       ELSE IF ~TeIndexOk(targettoextent, row)
       THEN /\ last' = Call("targetextent.create", NULL, data, {}, "Exception",
                            <<"targettoextent.insert failed">>)
            /\ UNCHANGED targettoextent
       ELSE /\ targettoextent' = targettoextent \cup {row}
            /\ last' = Call("targetextent.create", row.id, data, {}, "none",
                            <<"targettoextent.insert", "reload">>)
    /\ UNCHANGED <<portal, portalip, auth, initiator, target, groups, extent>>
    /\ UNCHANGED env

(* iSCSITargetToExtentService.do_update; `data` is old merged with the     *)
(* fields given, so its lunid is never None.                               *)
TeUpdate(id, data) ==
    LET old == Row(targettoextent, id)
        verrors == TeValidate(data, TRUE, old)
        row == TeRow(id, data.target, data.extent, TeLun(data))
    IN
    /\ id \in Ids(targettoextent)
    /\ data.lunid # NULL
    /\ IF verrors # {}
       THEN /\ last' = Call("targetextent.update", id, data, verrors,
                            "ValidationErrors", <<>>)
            /\ UNCHANGED targettoextent
       ELSE IF ~TeIndexOk(targettoextent, row)
       THEN /\ last' = Call("targetextent.update", id, data, {}, "Exception",
                            <<"targettoextent.update failed">>)
            /\ UNCHANGED targettoextent
       ELSE /\ targettoextent' = (targettoextent \ {old}) \cup {row}
            /\ last' = Call("targetextent.update", id, data, {}, "none",
                            <<"targettoextent.update", "reload">>)
    /\ UNCHANGED <<portal, portalip, auth, initiator, target, groups, extent>>
    /\ UNCHANGED env

(* TeDeleteBlocked with the force flag left out. *)
TeDeleteBlockedForced(id, force) ==
    active_sessions_for_targets({Row(targettoextent, id).target}) # {}

(* Whether do_delete of Association `id` raises: its target is in use and  *)
(* the caller does not force.                                              *)
TeDeleteBlocked(id, force) ==
    /\ active_sessions_for_targets({Row(targettoextent, id).target}) # {}
    /\ ~force

(* The datastore and notifier calls of a do_delete that goes through. *)
TeDeleteTrace == <<"targettoextent.delete", "reload">>

(* iSCSITargetToExtentService.do_delete *)
TeDelete(id, force) ==
    /\ id \in Ids(targettoextent)
    /\ IF TeDeleteBlocked(id, force)
       THEN /\ last' = Call("targetextent.delete", id, [force |-> force], {}, "CallError", <<>>)
            /\ UNCHANGED targettoextent
       ELSE /\ targettoextent' = {r \in targettoextent : r.id # id}
            /\ last' = Call("targetextent.delete", id, [force |-> force], {}, "none",
                            TeDeleteTrace)
    /\ UNCHANGED <<portal, portalip, auth, initiator, target, groups, extent>>
    /\ UNCHANGED env

-----------------------------------------------------------------------------
(* iSCSITargetService *)

(* Whether RE_TARGET_NAME matches, for the names of the model. *)
RE_TARGET_NAME(name) == name \notin {"Bad Name"}

(* Whether the string holds a double quote, for the strings of the model. *)
HasQuote(str) == str \in {"quo\"te"}

(* system.feature_enabled('FIBRECHANNEL') *)
FIBRECHANNEL == FALSE

Range(seq) == {seq[i] : i \in DOMAIN seq}

GroupField(i, field) == "groups." \o ToString(i - 1) \o "." \o field

(* A row of services.iscsitargetgroups for a group as compress leaves it.  *)
(* The table has a unique index on (target, portal), so a row is           *)
(* identified by that pair and the surrogate key is left out.              *)
GroupRow(pk, g) ==
    [target |-> pk, portal |-> g.portal, initiator |-> g.initiator,
     authtype |-> g.authmethod, authgroup |-> g.auth]

(* The unique index of services.iscsitargetgroups on (target, portal):     *)
(* whether the datastore takes the insert of `row` into grps.              *)
GroupIndexOk(grps, row) ==
    ~\E r \in grps : r.target = row.target /\ r.portal = row.portal

(* iSCSITargetService.extend: the groups of a target as the API shows them. *)
TargetGroups(grps, pk) ==
    {[portal |-> r.portal, initiator |-> r.initiator, auth |-> r.authgroup,
      authmethod |-> AUTHMETHOD_LEGACY_MAP(r.authtype)] :
        r \in {x \in grps : x.target = pk}}

(* iSCSITargetService.compress, on one group. *)
CompressGroup(g) ==
    [portal |-> g.portal, initiator |-> g.initiator, auth |-> g.auth,
     authmethod |-> AUTHMETHOD_LEGACY_MAP_inv(g.authmethod)]

(* iSCSITargetService.compress, on the mode. *)
CompressMode(mode) ==
    CASE mode = "ISCSI" -> "iscsi"
      [] mode = "FC" -> "fc"
      [] mode = "BOTH" -> "both"

(* The credential iscsi.auth.query returns first for a tag. *)
FirstAuth(tag) ==
    LET found == {a \in auth : a.tag = tag}
    IN CHOOSE a \in found : \A b \in found : a.id <= b.id

(* TargetGroupErrs with the loop over the groups left out. *)
TargetGroupErrsNone(grps, i, portals) == {}

(* The loop of __validate over the groups, from group i on; `portals` are  *)
(* the portals of the groups before i that passed.                         *)
RECURSIVE TargetGroupErrs(_, _, _)
TargetGroupErrs(grps, i, portals) ==
    IF i > Len(grps) THEN {}
    ELSE
    LET group == grps[i]
        db_portals == Ids(portal) \cap {g.portal : g \in Range(grps)}
        db_initiators == Ids(initiator) \cap {g.initiator : g \in Range(grps)}
        portal_errs ==
            IF group.portal \in portals
            THEN {Err(GroupField(i, "portal"), "duplicated")}
            ELSE IF group.portal \notin db_portals
            THEN {Err(GroupField(i, "portal"), "not found")}
            ELSE {}
        passed == IF portal_errs = {} THEN portals \cup {group.portal} ELSE portals
        initiator_errs ==
            IF Truthy(group.initiator) /\ group.initiator \notin db_initiators
            THEN {Err(GroupField(i, "initiator"), "not found")}
            ELSE {}
        auth_errs ==
            IF ~Truthy(group.auth) /\ group.authmethod \in {"CHAP", "CHAP_MUTUAL"}
            THEN {Err(GroupField(i, "auth"), "required")}
            ELSE IF Truthy(group.auth) /\ group.authmethod = "CHAP_MUTUAL"
            THEN IF ~\E a \in auth : a.tag = group.auth
                 THEN {Err(GroupField(i, "auth"), "not found")}
                 ELSE IF FirstAuth(group.auth).peeruser = ""
                 THEN {Err(GroupField(i, "auth"), "no CHAP Mutual")}
                 ELSE {}
            ELSE {}
    IN portal_errs \cup initiator_errs \cup auth_errs
       \cup TargetGroupErrs(grps, i + 1, passed)

(* TargetOthers with no row found. *)
TargetOthersNone(old_id) == {}

(* __validate: the rows the name and alias queries look through, those of  *)
(* the other targets; old_id is NULL when old is None.                     *)
TargetOthers(old_id) == {t \in target : t.id # old_id}

(* iSCSITargetService.__validate; old_id is NULL when old is None. *)
TargetValidate(data, old_id) ==
    LET others == TargetOthers(old_id)
        name_errs ==
            IF ~RE_TARGET_NAME(data.name)
            THEN {Err("name", "characters")}
            ELSE IF \E t \in others : t.name = data.name
            THEN {Err("name", "exists")}
            ELSE {}
        alias_errs ==
            IF data.alias = NullStr THEN {}
            ELSE IF HasQuote(data.alias) THEN {Err("alias", "double quotes")}
            ELSE IF data.alias = "target" THEN {Err("alias", "reserved")}
            ELSE IF \E t \in others : t.alias = data.alias
            THEN {Err("alias", "exists")}
            ELSE {}
        mode_errs ==
            IF data.mode # "ISCSI" /\ ~FIBRECHANNEL
            THEN {Err("mode", "Fibre Channel not enabled")}
            ELSE {}
    IN name_errs \cup alias_errs \cup mode_errs
       \cup TargetGroupErrs(data.groups, 1, {})

TargetRow(id, name, alias, mode) ==
    [id |-> id, name |-> name, alias |-> alias, mode |-> mode]

(* iSCSITargetService.do_create. `done` is the part of the groups          *)
(* __save_groups had inserted when a datastore call failed; it is all of   *)
(* them when none failed.                                                  *)
TargetCreate(data, done) ==
    LET verrors == TargetValidate(data, NULL)
        pk == NewId(target)
        new_set == {CompressGroup(g) : g \in Range(data.groups)}
        inserted == {GroupRow(pk, g) : g \in done}
    IN
    /\ done \subseteq new_set
    /\ \A g \in done :
          GroupIndexOk(groups \cup {GroupRow(pk, h) : h \in done \ {g}},
                       GroupRow(pk, g))
    /\ IF verrors # {}
       THEN /\ last' = Call("target.create", NULL, data, verrors,
                            "ValidationErrors", <<>>)
            /\ UNCHANGED <<target, groups>>
       ELSE IF done # new_set
       THEN \* a datastore.insert of __save_groups raised: the parent row is
            \* deleted again and the exception re-raised
            /\ groups' = groups \cup inserted
            /\ target' = target
            /\ last' = Call("target.create", pk, data, {}, "Exception",
                            <<"target.insert">>
                            \o Repeat("groups.insert", Cardinality(done))
                            \o <<"groups.insert failed", "target.delete">>)
       ELSE /\ target' = target \cup
                    {TargetRow(pk, data.name, data.alias, CompressMode(data.mode))}
            /\ groups' = groups \cup inserted
            /\ last' = Call("target.create", pk, data, {}, "none",
                            <<"target.insert">>
                            \o Repeat("groups.insert", Cardinality(done))
                            \o <<"reload">>)
    /\ UNCHANGED <<portal, portalip, auth, initiator, extent, targettoextent>>
    /\ UNCHANGED env

(* The old groups with compress left out: in the form extend gives them. *)
TargetOldSetExtended(id) == TargetGroups(groups, id)

(* do_update: the old groups __save_groups is given, extend's view of the  *)
(* stored rows put through compress.                                       *)
TargetOldSet(id) == {CompressGroup(g) : g \in TargetGroups(groups, id)}

(* iSCSITargetService.do_update. A field the caller leaves out keeps its   *)
(* old value, so `data` is the merged record; groups left out are the old  *)
(* groups.                                                                 *)
TargetUpdate(id, data) ==
    LET old == Row(target, id)
        verrors == TargetValidate(data, id)
        new_set == {CompressGroup(g) : g \in Range(data.groups)}
        old_set == TargetOldSet(id)
        to_delete == old_set \ new_set
        to_insert == new_set \ old_set
    IN
    /\ id \in Ids(target)
    /\ IF verrors # {}
       THEN /\ last' = Call("target.update", id, data, verrors,
                            "ValidationErrors", <<>>)
            /\ UNCHANGED <<target, groups>>
       ELSE /\ target' = (target \ {old}) \cup
                    {TargetRow(id, data.name, data.alias, CompressMode(data.mode))}
            /\ groups' = ((groups \ {GroupRow(id, g) : g \in to_delete})
                          \cup {GroupRow(id, g) : g \in to_insert})
            /\ last' = Call("target.update", id, data, {}, "none",
                            <<"target.update">>
                            \o Repeat("groups.delete", Cardinality(to_delete))
                            \o Repeat("groups.insert", Cardinality(to_insert))
                            \o <<"reload">>)
    /\ UNCHANGED <<portal, portalip, auth, initiator, extent, targettoextent>>
    /\ UNCHANGED env

(* The calls of the Association deletes a Target or Extent delete makes. *)
RECURSIVE TeDeleteTraces(_)
TeDeleteTraces(n) == IF n = 0 THEN <<>> ELSE TeDeleteTrace \o TeDeleteTraces(n - 1)

(* ScstTrace with the run made for a forced delete only. *)
ScstTraceForced(force, scst_ok) ==
    IF service_started /\ force
    THEN IF scst_ok THEN <<"scstadmin">> ELSE <<"scstadmin failed">>
    ELSE <<>>

(* do_delete: the scstadmin run that removes the target from the running   *)
(* service, made when service.started says so; a non-zero exit status is   *)
(* logged.                                                                 *)
ScstTrace(force, scst_ok) ==
    IF service_started
    THEN IF scst_ok THEN <<"scstadmin">> ELSE <<"scstadmin failed">>
    ELSE <<>>

(* ScstRaises as run(..., check=True) would have it. *)
ScstRaisesChecked(scst_ok) == service_started /\ ~scst_ok

(* do_delete runs scstadmin with check=False: a non-zero exit status is    *)
(* logged and raises nothing.                                              *)
ScstRaises(scst_ok) == FALSE

(* TargetAssocs with no Association found. *)
TargetAssocsNone(id) == {}

(* The Associations do_delete finds for the target. *)
TargetAssocs(id) == {r \in targettoextent : r.target = id}

(* iSCSITargetService.do_delete. scst_ok is whether the scstadmin run that *)
(* removes the target from the running service exits with status 0.        *)
TargetDelete(id, force, scst_ok) ==
    LET tes == TargetAssocs(id)
    IN
    /\ id \in Ids(target)
    /\ IF active_sessions_for_targets({id}) # {} /\ ~force
       THEN /\ last' = Call("target.delete", id, [force |-> force], {},
                            "CallError", <<>>)
            /\ UNCHANGED <<target, groups, targettoextent>>
       ELSE /\ targettoextent' = targettoextent \ tes
            /\ groups' = {g \in groups : g.target # id}
            /\ target' = {t \in target : t.id # id}
            /\ last' = Call("target.delete", id, [force |-> force], {},
                            IF ScstRaises(scst_ok) THEN "CallError" ELSE "none",
                            TeDeleteTraces(Cardinality(tes))
                            \o <<"groups.delete", "target.delete">>
                            \o ScstTrace(force, scst_ok)
                            \o (IF ScstRaises(scst_ok) THEN <<>> ELSE <<"reload">>))
    /\ UNCHANGED <<portal, portalip, auth, initiator, extent>>
    /\ UNCHANGED env

(* An address is configured on an interface of the system, or removed     *)
(* from it (interface.query, read by listen_ip_choices).                   *)
SystemIpChange(ip) ==
    /\ system_ips' = IF ip \in system_ips THEN system_ips \ {ip}
                     ELSE system_ips \cup {ip}
    /\ UNCHANGED <<files, sessions, service_started>>
    /\ UNCHANGED tables
    /\ UNCHANGED last

(* The iscsitarget service is started or stopped; a stopped service has    *)
(* no session and a service just started has none yet.                     *)
ServiceChange ==
    /\ service_started' = ~service_started
    /\ sessions' = {}
    /\ UNCHANGED <<files, system_ips>>
    /\ UNCHANGED tables
    /\ UNCHANGED last

(* A live session on a served target starts or ends. *)
SessionChange(name) ==
    /\ sessions' = IF name \in sessions THEN sessions \ {name}
                   ELSE sessions \cup {name}
    /\ UNCHANGED <<files, system_ips, service_started>>
    /\ UNCHANGED tables
    /\ UNCHANGED last

-----------------------------------------------------------------------------
(* iSCSITargetExtentService *)

max_serial_len == 20

tries == 5

(* The paths of the model that are directories, that end with a slash and  *)
(* that lie inside a pool's mountpoint (check_path_resides_within_volume). *)
Directories == {"/mnt/tank/dir"}

EndsWithSlash(path) == path \in {"/mnt/tank/dir/"}

WithinVolume(path) == path \in {"/mnt/tank/f1", "/mnt/tank/f2", "/mnt/tank/dir"}

(* The disk names of the model that start with 'zvol/', those whose volume *)
(* pool.dataset.query finds and those whose device node exists.            *)
StartsWithZvol(disk) ==
    disk \in {"zvol/tank/vol1", "zvol/tank/vol2", "zvol/tank/gone"}

ZvolExists(disk) == disk \in {"zvol/tank/vol1", "zvol/tank/vol2"}

DeviceExists(disk) == disk \in {"zvol/tank/vol1", "zvol/tank/vol2"}

PathExists(path) == path \in files \/ path \in Directories

IsFile(path) == path \in files

(* The truth value Python gives an optional string: None and '' are false. *)
TruthyStr(str) == str # NullStr /\ str # ""

ExtentRow(id, name, serial, naa, type, path, filesize, blocksize) ==
    [id |-> id, name |-> name, serial |-> serial, naa |-> naa, type |-> type,
     path |-> path, filesize |-> filesize, blocksize |-> blocksize]

(* extent_serial with the error raised on the last but one draw. *)
extent_serial_short(serial, draws) ==
    IF serial # NullStr THEN serial
    ELSE LET used_serials == {e.serial : e \in extent}
             free == {i \in 1..(tries - 1) : draws[i] \notin used_serials}
         IN IF free = {} THEN NullStr ELSE draws[Min(free)]

(* extent_serial: the serial given, or the first of the random draws that  *)
(* no extent uses; NullStr when each of the `tries` draws is in use, which *)
(* raises CallError.                                                       *)
extent_serial(serial, draws) ==
    IF serial # NullStr THEN serial
    ELSE LET used_serials == {e.serial : e \in extent}
             free == {i \in 1..tries : draws[i] \notin used_serials}
         IN IF free = {} THEN NullStr ELSE draws[Min(free)]

(* extent_naa with a new NAA made whatever it is given. *)
extent_naa_always(naa) ==
    "0x6589cfc000000" \o ToString(
        Min({i \in 1..(Cardinality(extent) + 1) :
                \A e \in extent : e.naa # "0x6589cfc000000" \o ToString(i)}))

(* extent_naa: the NAA given, or a new one from a random UUID, which no    *)
(* extent carries.                                                         *)
extent_naa(naa) ==
    IF naa # NullStr THEN naa
    ELSE "0x6589cfc000000" \o ToString(
             Min({i \in 1..(Cardinality(extent) + 1) :
                     \A e \in extent : e.naa # "0x6589cfc000000" \o ToString(i)}))

(* clean_name; old_name is NullStr when old is None. *)
ExtentCleanName(data, serial, old_name) ==
    (IF HasQuote(data.name) THEN {Err("name", "double quotes")} ELSE {})
    \cup (IF HasQuote(serial) THEN {Err("serial", "double quotes")} ELSE {})
    \cup (IF Len(serial) > max_serial_len THEN {Err("serial", "too long")} ELSE {})
    \cup (IF data.name # old_name /\ \E e \in extent : e.name = data.name
          THEN {Err("name", "unique")} ELSE {})

(* clean_type_and_path: the errors, and whether it raised them itself. *)
ExtentCleanTypeAndPath(data) ==
    IF data.type = "DISK"
    THEN IF ~TruthyStr(data.disk)
         THEN [errs |-> {Err("disk", "required")}, raised |-> TRUE]
         ELSE IF ~StartsWithZvol(data.disk)
         THEN [errs |-> {Err("disk", "zvol/")}, raised |-> TRUE]
         ELSE [errs |-> (IF ~ZvolExists(data.disk)
                         THEN {Err("disk", "volume does not exist")} ELSE {})
                        \cup
                        (IF ~DeviceExists(data.disk)
                         THEN {Err("disk", "device does not exist")} ELSE {}),
               raised |-> FALSE]
    ELSE IF ~TruthyStr(data.path)
         THEN [errs |-> {Err("path", "required")}, raised |-> TRUE]
         ELSE [errs |-> (IF /\ PathExists(data.path)
                            /\ (~IsFile(data.path) \/ EndsWithSlash(data.path))
                         THEN {Err("path", "directory")} ELSE {})
                        \cup
                        (IF ~WithinVolume(data.path)
                         THEN {Err("path", "outside volume")} ELSE {}),
               raised |-> FALSE]

(* clean_size *)
ExtentCleanSize(data) ==
    IF data.type # "FILE" THEN {}
    ELSE IF ~TruthyStr(data.path) THEN {Err("path", "required")}
    ELSE IF data.filesize = 0
    THEN IF ~PathExists(data.path) \/ ~IsFile(data.path)
         THEN {Err("path", "must exist")} ELSE {}
    ELSE IF data.filesize % data.blocksize # 0
    THEN {Err("filesize", "multiple of block size")}
    ELSE {}

(* clean *)
ExtentClean(data, serial, old_name) ==
    LET tp == ExtentCleanTypeAndPath(data)
    IN ExtentCleanName(data, serial, old_name) \cup tp.errs
       \cup (IF tp.raised THEN {} ELSE ExtentCleanSize(data))

(* save: the file a FILE extent is given when its path does not exist. *)
ExtentSaveFiles(data) ==
    IF data.type = "FILE" /\ ~PathExists(data.path)
    THEN files \cup {data.path}
    ELSE files

(* save: the path column. *)
ExtentSavePath(data) == IF data.type = "FILE" THEN data.path ELSE data.disk

(* iSCSITargetExtentService.do_create; draws are the `tries` values        *)
(* secrets.token_hex gives.                                                *)
ExtentCreate(data, draws) ==
    LET serial == extent_serial(data.serial, draws)
        verrors == ExtentClean(data, serial, NullStr)
        pk == NewId(extent)
        args == [draws |-> draws] @@ data
    IN
    /\ IF serial = NullStr
       THEN /\ last' = Call("extent.create", NULL, args, {}, "CallError", <<>>)
            /\ UNCHANGED <<extent, files>>
       ELSE IF verrors # {}
       THEN /\ last' = Call("extent.create", NULL, args, verrors,
                            "ValidationErrors", <<>>)
            /\ UNCHANGED <<extent, files>>
       ELSE /\ files' = ExtentSaveFiles(data)
            /\ extent' = extent \cup
                    {ExtentRow(pk, data.name, serial, extent_naa(NullStr), data.type,
                               ExtentSavePath(data), data.filesize, data.blocksize)}
            /\ last' = Call("extent.create", pk, args, {}, "none",
                            <<"extent.insert">>)
    /\ UNCHANGED <<portal, portalip, auth, initiator, target, groups, targettoextent>>
    /\ UNCHANGED <<sessions, system_ips, service_started>>

(* iSCSITargetExtentService.do_update. A field the caller leaves out keeps *)
(* its old value, so `data` is the merged record.                          *)
ExtentUpdate(id, data, draws) ==
    LET old == Row(extent, id)
        serial == extent_serial(data.serial, draws)
        verrors == ExtentClean(data, serial, old.name)
    IN
    /\ id \in Ids(extent)
    /\ IF serial = NullStr
       THEN /\ last' = Call("extent.update", id, data, {}, "CallError", <<>>)
            /\ UNCHANGED <<extent, files>>
       ELSE IF verrors # {}
       THEN /\ last' = Call("extent.update", id, data, verrors,
                            "ValidationErrors", <<>>)
            /\ UNCHANGED <<extent, files>>
       ELSE /\ files' = ExtentSaveFiles(data)
            /\ extent' = (extent \ {old}) \cup
                    {ExtentRow(id, data.name, serial, extent_naa(old.naa), data.type,
                               ExtentSavePath(data), data.filesize, data.blocksize)}
            /\ last' = Call("extent.update", id, data, {}, "none",
                            <<"extent.update", "reload">>)
    /\ UNCHANGED <<portal, portalip, auth, initiator, target, groups, targettoextent>>
    /\ UNCHANGED <<sessions, system_ips, service_started>>

(* ExtentAssocs with the wrong column compared. *)
ExtentAssocsByTarget(id) == {r \in targettoextent : r.target = id}

(* The Associations do_delete finds for the extent. *)
ExtentAssocs(id) == {r \in targettoextent : r.extent = id}

(* ExtentDeleteBlocked with the force flag left out. *)
ExtentDeleteBlockedAlways(active, force) == active # {}

(* do_delete: the active sessions raise CallError unless force is set. *)
ExtentDeleteBlocked(active, force) == active # {} /\ ~force

(* iSCSITargetExtentService.do_delete *)
ExtentDelete(id, remove, force) ==
    LET data == Row(extent, id)
        tes == ExtentAssocs(id)
        active == active_sessions_for_targets({r.target : r \in tes})
        unlink == remove /\ data.type = "FILE"
        args == [remove |-> remove, force |-> force]
    IN
    /\ id \in Ids(extent)
    /\ IF ExtentDeleteBlocked(active, force)
       THEN /\ last' = Call("extent.delete", id, args, {}, "CallError", <<>>)
            /\ UNCHANGED <<extent, targettoextent, files>>
       ELSE IF unlink /\ data.path \notin files
       THEN \* remove_extent_file returned the exception of os.unlink
            /\ last' = Call("extent.delete", id, args, {}, "CallError", <<>>)
            /\ UNCHANGED <<extent, targettoextent, files>>
       ELSE /\ files' = IF unlink THEN files \ {data.path} ELSE files
            /\ targettoextent' = targettoextent \ tes
            /\ extent' = {e \in extent : e.id # id}
            /\ last' = Call("extent.delete", id, args, {}, "none",
                            TeDeleteTraces(Cardinality(tes))
                            \o <<"extent.delete", "reload">>)
    /\ UNCHANGED <<portal, portalip, auth, initiator, target, groups>>
    /\ UNCHANGED <<sessions, system_ips, service_started>>

-----------------------------------------------------------------------------
(* ISCSIFSAttachmentDelegate *)

(* AttachmentOrphans with the targets that still have an Association left  *)
(* in.                                                                     *)
AttachmentOrphansAll(removed, rest) == {r.target : r \in removed}

(* delete: the targets that lost an Association of `removed` and have none *)
(* among `rest`, the Associations still stored.                            *)
AttachmentOrphans(removed, rest) ==
    {r.target : r \in removed} \ {r.target : r \in rest}

(* delete: the datastore calls of the loop over the attachments, the       *)
(* extent of the smallest id first.                                        *)
RECURSIVE AttachmentTrace(_)
AttachmentTrace(atts) ==
    IF atts = {} THEN <<>>
    ELSE LET id == Min(atts)
         IN Repeat("targettoextent.delete", Cardinality(ExtentAssocs(id)))
            \o <<"extent.delete">> \o AttachmentTrace(atts \ {id})

(* delete: the calls of the forced iscsi.target.delete of n orphan         *)
(* targets, which have no Association left.                                *)
RECURSIVE OrphanDeleteTrace(_, _)
OrphanDeleteTrace(n, scst_ok) ==
    IF n = 0 THEN <<>>
    ELSE <<"groups.delete", "target.delete">> \o ScstTrace(TRUE, scst_ok)
         \o <<"reload">> \o OrphanDeleteTrace(n - 1, scst_ok)

(* ISCSIFSAttachmentDelegate.delete; atts are the ids of the attachments,  *)
(* which are extents of type DISK.                                         *)
AttachmentDelete(atts, scst_ok) ==
    LET removed == {r \in targettoextent : r.extent \in atts}
        rest == targettoextent \ removed
        orphan_targets_ids == AttachmentOrphans(removed, rest)
    IN
    /\ atts # {}
    /\ atts \subseteq {e.id : e \in {x \in extent : x.type = "DISK"}}
    /\ targettoextent' = rest
    /\ extent' = {e \in extent : e.id \notin atts}
    /\ groups' = {g \in groups : g.target \notin orphan_targets_ids}
    /\ target' = {t \in target : t.id \notin orphan_targets_ids}
    /\ last' = Call("attachment.delete", NULL, [extents |-> atts], {}, "none",
                    AttachmentTrace(atts)
                    \o OrphanDeleteTrace(Cardinality(orphan_targets_ids), scst_ok)
                    \o <<"reload">>)
    /\ UNCHANGED <<portal, portalip, auth, initiator>>
    /\ UNCHANGED env

-----------------------------------------------------------------------------
(* iSCSITargetAuthCredentialService *)

AuthRow(id, data) ==
    [id |-> id, tag |-> data.tag, user |-> data.user, secret |-> data.secret,
     peeruser |-> data.peeruser, peersecret |-> data.peersecret]

(* AuthValidate with the checks of the peer secret's value left out. *)
AuthValidateLax(data) ==
    (IF data.peeruser = "" /\ data.peersecret # ""
     THEN {Err("peersecret", "peer user required")} ELSE {})
    \cup
    (IF Len(data.secret) < 12 \/ Len(data.secret) > 16
     THEN {Err("secret", "length")} ELSE {})
    \cup
    (IF data.peeruser = "" THEN {}
     ELSE IF data.peersecret = "" THEN {Err("peersecret", "required")}
     ELSE {})

(* iSCSITargetAuthCredentialService.validate *)
AuthValidate(data) ==
    (IF data.peeruser = "" /\ data.peersecret # ""
     THEN {Err("peersecret", "peer user required")} ELSE {})
    \cup
    (IF Len(data.secret) < 12 \/ Len(data.secret) > 16
     THEN {Err("secret", "length")} ELSE {})
    \cup
    (IF data.peeruser = "" THEN {}
     ELSE IF data.peersecret = "" THEN {Err("peersecret", "required")}
     ELSE IF data.peersecret = data.secret THEN {Err("peersecret", "same as secret")}
     ELSE IF Len(data.peersecret) < 12 \/ Len(data.peersecret) > 16
     THEN {Err("peersecret", "length")}
     ELSE {})

(* is_in_use_by_portals_targets: "TypeError" when a portal uses the tag    *)
(* (the message joins the portals' integer ids with str.join, which takes  *)
(* strings only), else whether a target group uses it.                     *)
AuthUsage(id) ==
    LET config == Row(auth, id)
    IN IF \E p \in portal : p.discoveryauthgroup = config.tag
       THEN "TypeError"
       ELSE IF \E g \in groups : g.authgroup = config.tag
       THEN "in_use"
       ELSE "free"

(* AuthTagAlone with the query for other credentials of the tag finding    *)
(* none, whatever the table holds.                                         *)
AuthTagAlways(id) == TRUE

(* No other credential carries the tag of credential `id`. *)
AuthTagAlone(id) ==
    ~\E a \in auth : a.tag = Row(auth, id).tag /\ a.id # id

(* iSCSITargetAuthCredentialService.do_create *)
AuthCreate(data) ==
    LET verrors == AuthValidate(data)
        pk == NewId(auth)
    IN
    /\ IF verrors # {}
       THEN /\ last' = Call("auth.create", NULL, data, verrors,
                            "ValidationErrors", <<>>)
            /\ UNCHANGED auth
       ELSE /\ auth' = auth \cup {AuthRow(pk, data)}
            /\ last' = Call("auth.create", pk, data, {}, "none",
                            <<"auth.insert", "reload">>)
    /\ UNCHANGED <<portal, portalip, initiator, target, groups, extent, targettoextent>>
    /\ UNCHANGED env

(* iSCSITargetAuthCredentialService.do_update; `data` is the merged record. *)
AuthUpdate(id, data) ==
    LET old == Row(auth, id)
        checked == data.tag # old.tag /\ AuthTagAlone(id)
        verrors == AuthValidate(data) \cup
                   (IF checked /\ AuthUsage(id) = "in_use"
                    THEN {Err("tag", "in use")} ELSE {})
    IN
    /\ id \in Ids(auth)
    /\ IF checked /\ AuthUsage(id) = "TypeError"
       THEN /\ last' = Call("auth.update", id, data, AuthValidate(data),
                            "TypeError", <<>>)
            /\ UNCHANGED auth
       ELSE IF verrors # {}
       THEN /\ last' = Call("auth.update", id, data, verrors,
                            "ValidationErrors", <<>>)
            /\ UNCHANGED auth
       ELSE /\ auth' = (auth \ {old}) \cup {AuthRow(id, data)}
            /\ last' = Call("auth.update", id, data, {}, "none",
                            <<"auth.update", "reload">>)
    /\ UNCHANGED <<portal, portalip, initiator, target, groups, extent, targettoextent>>
    /\ UNCHANGED env

(* iSCSITargetAuthCredentialService.do_delete *)
AuthDelete(id) ==
    /\ id \in Ids(auth)
    /\ IF AuthTagAlone(id) /\ AuthUsage(id) = "TypeError"
       THEN /\ last' = Call("auth.delete", id, NoArgs, {}, "TypeError", <<>>)
            /\ UNCHANGED auth
       ELSE IF AuthTagAlone(id) /\ AuthUsage(id) = "in_use"
       THEN /\ last' = Call("auth.delete", id, NoArgs, {}, "CallError", <<>>)
            /\ UNCHANGED auth
       ELSE /\ auth' = {a \in auth : a.id # id}
            /\ last' = Call("auth.delete", id, NoArgs, {}, "none", <<"auth.delete">>)
    /\ UNCHANGED <<portal, portalip, initiator, target, groups, extent, targettoextent>>
    /\ UNCHANGED env

-----------------------------------------------------------------------------
(* iSCSITargetAuthorizedInitiator *)

RECURSIVE JoinLines(_)
JoinLines(seq) ==
    IF Len(seq) = 1 THEN seq[1] ELSE seq[1] \o "\n" \o JoinLines(Tail(seq))

(* compress, on one of the two lists. *)
CompressList(seq) == IF seq = <<>> THEN "ALL" ELSE JoinLines(seq)

(* The characters str.split() takes for separators. *)
Whitespace == {" ", "\n", "\t"}

(* str.split() from character i on: `word` is the word being read and      *)
(* `words` are the words read.                                             *)
RECURSIVE SplitFrom(_, _, _, _)
SplitFrom(str, i, word, words) ==
    IF i > Len(str)
    THEN IF word = "" THEN words ELSE Append(words, word)
    ELSE LET c == SubSeq(str, i, i)
         IN IF c \in Whitespace
            THEN SplitFrom(str, i + 1, "",
                           IF word = "" THEN words ELSE Append(words, word))
            ELSE SplitFrom(str, i + 1, word \o c, words)

(* extend, on one of the two columns. *)
ExtendList(text) == IF text = "ALL" THEN <<>> ELSE SplitFrom(text, 1, "", <<>>)

(* iSCSITargetAuthorizedInitiator.extend: the initiator of `id` as         *)
(* get_instance returns it.                                                *)
InitiatorGet(id) ==
    LET row == Row(initiator, id)
    IN [initiators |-> ExtendList(row.initiators),
        auth_network |-> ExtendList(row.auth_network)]

InitiatorRow(id, data) ==
    [id |-> id, initiators |-> CompressList(data.initiators),
     auth_network |-> CompressList(data.auth_network)]

(* iSCSITargetAuthorizedInitiator.do_create *)
InitiatorCreate(data) ==
    LET pk == NewId(initiator)
    IN
    /\ initiator' = initiator \cup {InitiatorRow(pk, data)}
    /\ last' = Call("initiator.create", pk, data, {}, "none",
                    <<"initiator.insert", "reload">>)
    /\ UNCHANGED <<portal, portalip, auth, target, groups, extent, targettoextent>>
    /\ UNCHANGED env

(* iSCSITargetAuthorizedInitiator.do_update; `data` is the merged record. *)
InitiatorUpdate(id, data) ==
    /\ id \in Ids(initiator)
    /\ initiator' = (initiator \ {Row(initiator, id)}) \cup {InitiatorRow(id, data)}
    /\ last' = Call("initiator.update", id, data, {}, "none",
                    <<"initiator.update", "reload">>)
    /\ UNCHANGED <<portal, portalip, auth, target, groups, extent, targettoextent>>
    /\ UNCHANGED env

(* InitiatorSetNull with the group rows left as they are. *)
InitiatorSetNullOff(id) == groups

(* The foreign key of the group rows on the initiator, ON DELETE SET NULL: *)
(* the group rows after the delete of initiator `id`.                      *)
InitiatorSetNull(id) ==
    {IF g.initiator = id THEN [g EXCEPT !.initiator = NULL] ELSE g : g \in groups}

(* iSCSITargetAuthorizedInitiator.do_delete. The initiator column of       *)
(* services.iscsitargetgroups is declared ondelete='SET NULL'.             *)
InitiatorDelete(id) ==
    /\ id \in Ids(initiator)
    /\ initiator' = {r \in initiator : r.id # id}
    /\ groups' = InitiatorSetNull(id)
    /\ last' = Call("initiator.delete", id, NoArgs, {}, "none",
                    <<"initiator.delete", "reload">>)
    /\ UNCHANGED <<portal, portalip, auth, target, extent, targettoextent>>
    /\ UNCHANGED env

-----------------------------------------------------------------------------
(* The portal service alone: creates (with and without a failing          *)
(* datastore call), updates and deletes of portals, one call at a time.    *)

AuthData(tag, user, secret, peeruser, peersecret) ==
    [tag |-> tag, user |-> user, secret |-> secret,
     peeruser |-> peeruser, peersecret |-> peersecret]

Credential(id, tag, peeruser) ==
    AuthRow(id, AuthData(tag, "user", "secret-12-chars", peeruser,
                         IF peeruser = "" THEN "" ELSE "peersecret-13"))

PortalAuthChoices == {<<"NONE", NULL>>, <<"CHAP", 1>>, <<"CHAP", NULL>>}

PortalData ==
    {[listen |-> l, discovery_authmethod |-> a[1], discovery_authgroup |-> a[2]] :
        l \in {s \in SUBSET ListenPairs : Cardinality(s) <= 2},
        a \in PortalAuthChoices}

InitPortal ==
    /\ portal = {}
    /\ portalip = {}
    /\ auth = {AuthRow(1, AuthData(1, "user", "secret-12-chars", "", ""))}
    /\ initiator = {}
    /\ target = {}
    /\ groups = {}
    /\ extent = {}
    /\ targettoextent = {}
    /\ files = {}
    /\ sessions = {}
    /\ system_ips = {"10.0.0.1"}
    /\ service_started = TRUE
    /\ last = NoCall
    /\ nops = 0
    /\ pending = NoPending

NextPortal ==
    \/ \E data \in PortalData : \E done \in SUBSET data.listen :
          /\ Cardinality(portal) < MaxPortals
          /\ PortalCreate(data, done) /\ UNCHANGED <<nops, pending>>
    \/ \E pk \in Ids(portal) : \E data \in PortalData :
          PortalUpdate(pk, data) /\ UNCHANGED <<nops, pending>>
    \/ \E id \in Ids(portal) : PortalDelete(id) /\ UNCHANGED <<nops, pending>>

SpecPortal == InitPortal /\ [][NextPortal]_vars

-----------------------------------------------------------------------------
(* The Association service over a store of two targets and two extents,    *)
(* and over one of a single target and four extents.                       *)

DiskExtent(id) ==
    ExtentRow(id, "extent" \o ToString(id), "serial" \o ToString(id),
              "0x6589cfc000000" \o ToString(id), "DISK",
              "zvol/tank/vol" \o ToString(id), 0, 512)

TeData(tgts, exts, luns) == [target : tgts, extent : exts, lunid : luns]

InitAssoc ==
    /\ portal = {}
    /\ portalip = {}
    /\ auth = {}
    /\ initiator = {}
    /\ target = {TargetRow(1, "t1", NullStr, "iscsi"), TargetRow(2, "t2", NullStr, "iscsi")}
    /\ groups = {}
    /\ extent = {DiskExtent(1), DiskExtent(2)}
    /\ targettoextent = {}
    /\ files = {}
    /\ sessions = {}
    /\ system_ips = {"10.0.0.1"}
    /\ service_started = TRUE
    /\ last = NoCall
    /\ nops = 0
    /\ pending = NoPending

NextAssoc ==
    \/ \E data \in TeData(Ids(target), Ids(extent), {NULL, 0, 1}) :
          /\ Cardinality(targettoextent) < MaxAssocs
          /\ TeCreate(data) /\ UNCHANGED <<nops, pending>>
    \/ \E id \in Ids(targettoextent) :
       \E data \in TeData(Ids(target), Ids(extent), {0, 1}) :
          TeUpdate(id, data) /\ UNCHANGED <<nops, pending>>
    \/ \E id \in Ids(targettoextent) : \E force \in BOOLEAN :
          TeDelete(id, force) /\ UNCHANGED <<nops, pending>>

SpecAssoc == InitAssoc /\ [][NextAssoc]_vars

InitLun ==
    /\ portal = {}
    /\ portalip = {}
    /\ auth = {}
    /\ initiator = {}
    /\ target = {TargetRow(1, "t1", NullStr, "iscsi")}
    /\ groups = {}
    /\ extent = {DiskExtent(1), DiskExtent(2), DiskExtent(3), DiskExtent(4)}
    /\ targettoextent = {}
    /\ files = {}
    /\ sessions = {}
    /\ system_ips = {"10.0.0.1"}
    /\ service_started = TRUE
    /\ last = NoCall
    /\ nops = 0
    /\ pending = NoPending

NextLun ==
    \/ \E data \in TeData(Ids(target), Ids(extent), {NULL, 0, 1, 2, 3}) :
          /\ Cardinality(targettoextent) < MaxLuns
          /\ TeCreate(data) /\ UNCHANGED <<nops, pending>>
    \/ \E id \in Ids(targettoextent) :
          TeDelete(id, FALSE) /\ UNCHANGED <<nops, pending>>

SpecLun == InitLun /\ [][NextLun]_vars

-----------------------------------------------------------------------------
(* The target service with the Association and Extent deletes it shares    *)
(* rows with, over a store of two portals and two extents, while sessions  *)
(* on the served targets come and go; at most MaxTargets targets and as    *)
(* many Associations.                                                      *)

PortalOf(id, tag) ==
    PortalRow(id, tag, [discovery_authmethod |-> "NONE", discovery_authgroup |-> NULL])

Group(ptl, authmethod, tag) ==
    [portal |-> ptl, initiator |-> NULL, authmethod |-> authmethod, auth |-> tag]

GroupLists ==
    {<<>>, <<Group(1, "CHAP", 1), Group(2, "NONE", NULL)>>}

TargetData(names) ==
    {[name |-> n, alias |-> NullStr, mode |-> "ISCSI", groups |-> g] :
        n \in names, g \in GroupLists}

ServedNames == {QualifiedName(t.name) : t \in target}

InitTarget ==
    /\ portal = {PortalOf(1, 1), PortalOf(2, 2)}
    /\ portalip = {PortalIPRow(1, [ip |-> "0.0.0.0", port |-> 3260]),
                   PortalIPRow(2, [ip |-> "10.0.0.1", port |-> 3260])}
    /\ auth = {AuthRow(1, AuthData(1, "user", "secret-12-chars", "", ""))}
    /\ initiator = {}
    /\ target = {}
    /\ groups = {}
    /\ extent = {DiskExtent(1), DiskExtent(2)}
    /\ targettoextent = {}
    /\ files = {}
    /\ sessions = {}
    /\ system_ips = {"10.0.0.1"}
    /\ service_started = TRUE
    /\ last = NoCall
    /\ nops = 0
    /\ pending = NoPending

NextTarget ==
    \/ \E data \in TargetData({"t1", "iqn.2005-10.org.freenas.ctl:t1"}) :
       \E done \in SUBSET {CompressGroup(g) : g \in Range(data.groups)} :
          /\ Cardinality(target) < MaxTargets
          /\ TargetCreate(data, done) /\ UNCHANGED <<nops, pending>>
    \/ \E id \in Ids(target) : \E force, scst_ok \in BOOLEAN :
          TargetDelete(id, force, scst_ok) /\ UNCHANGED <<nops, pending>>
    \/ \E data \in TeData(Ids(target), Ids(extent), {NULL}) :
          /\ Cardinality(targettoextent) < MaxTargets
          /\ TeCreate(data) /\ UNCHANGED <<nops, pending>>
    \/ \E id \in Ids(extent) : \E force \in BOOLEAN :
          ExtentDelete(id, FALSE, force) /\ UNCHANGED <<nops, pending>>
    \/ \E name \in ServedNames : SessionChange(name) /\ UNCHANGED <<nops, pending>>

SpecTarget == InitTarget /\ [][NextTarget]_vars

-----------------------------------------------------------------------------
(* The portal service's create and update while addresses come and go on   *)
(* the system's interfaces.                                                *)

StaleListenPairs ==
    {[ip |-> "0.0.0.0", port |-> 3260],
     [ip |-> "10.0.0.1", port |-> 3260],
     [ip |-> "10.0.0.9", port |-> 3260]}

PortalDataStale ==
    {[listen |-> l, discovery_authmethod |-> "NONE", discovery_authgroup |-> NULL] :
        l \in (SUBSET StaleListenPairs) \ {{}}}

InitStale ==
    /\ portal = {}
    /\ portalip = {}
    /\ auth = {}
    /\ initiator = {}
    /\ target = {}
    /\ groups = {}
    /\ extent = {}
    /\ targettoextent = {}
    /\ files = {}
    /\ sessions = {}
    /\ system_ips = {"10.0.0.1", "10.0.0.9"}
    /\ service_started = TRUE
    /\ last = NoCall
    /\ nops = 0
    /\ pending = NoPending

NextStale ==
    \/ \E data \in PortalDataStale :
          /\ Cardinality(portal) < MaxPortals
          /\ PortalCreate(data, data.listen) /\ UNCHANGED <<nops, pending>>
    \/ \E pk \in Ids(portal) : \E data \in PortalDataStale :
          PortalUpdate(pk, data) /\ UNCHANGED <<nops, pending>>
    \/ \E ip \in {"10.0.0.1", "10.0.0.9"} : SystemIpChange(ip) /\ UNCHANGED <<nops, pending>>

SpecStale == InitStale /\ [][NextStale]_vars

-----------------------------------------------------------------------------
(* The credential service over a store whose portal and whose target       *)
(* group each reference a tag, while portal and target updates take the    *)
(* references away and put them back.                                      *)

MaxCreds == 3

AuthDataTags == {AuthData(t, "user", "secret-12-chars", "", "") : t \in {1, 2, 3}}

PortalDataRef ==
    {[listen |-> {[ip |-> "0.0.0.0", port |-> 3260]},
      discovery_authmethod |-> a[1], discovery_authgroup |-> a[2]] :
        a \in {<<"NONE", NULL>>, <<"CHAP", 1>>}}

TargetDataRef ==
    {[name |-> "t1", alias |-> NullStr, mode |-> "ISCSI", groups |-> g] :
        g \in {<<Group(1, "NONE", NULL)>>, <<Group(1, "CHAP", 2)>>}}

InitAuth ==
    /\ portal = {PortalRow(1, 1, [discovery_authmethod |-> "CHAP",
                                  discovery_authgroup |-> 1])}
    /\ portalip = {PortalIPRow(1, [ip |-> "0.0.0.0", port |-> 3260])}
    /\ auth = {Credential(1, 1, ""), Credential(2, 2, "")}
    /\ initiator = {}
    /\ target = {TargetRow(1, "t1", NullStr, "iscsi")}
    /\ groups = {GroupRow(1, CompressGroup(Group(1, "CHAP", 2)))}
    /\ extent = {}
    /\ targettoextent = {}
    /\ files = {}
    /\ sessions = {}
    /\ system_ips = {"10.0.0.1"}
    /\ service_started = TRUE
    /\ last = NoCall
    /\ nops = 0
    /\ pending = NoPending

NextAuth ==
    \/ \E data \in AuthDataTags :
          /\ Cardinality(auth) < MaxCreds
          /\ AuthCreate(data) /\ UNCHANGED <<nops, pending>>
    \/ \E id \in Ids(auth) : \E data \in AuthDataTags :
          AuthUpdate(id, data) /\ UNCHANGED <<nops, pending>>
    \/ \E id \in Ids(auth) : AuthDelete(id) /\ UNCHANGED <<nops, pending>>
    \/ \E pk \in Ids(portal) : \E data \in PortalDataRef :
          PortalUpdate(pk, data) /\ UNCHANGED <<nops, pending>>
    \/ \E id \in Ids(target) : \E data \in TargetDataRef :
          TargetUpdate(id, data) /\ UNCHANGED <<nops, pending>>

SpecAuth == InitAuth /\ [][NextAuth]_vars

-----------------------------------------------------------------------------
(* Target creates and deletes while the service is started and stopped and *)
(* sessions come and go.                                                   *)

TargetDataPlain ==
    {[name |-> n, alias |-> NullStr, mode |-> "ISCSI", groups |-> g] :
        n \in {"t1", "t2"}, g \in {<<>>, <<Group(1, "NONE", NULL)>>}}

InitScst ==
    /\ portal = {PortalOf(1, 1)}
    /\ portalip = {PortalIPRow(1, [ip |-> "0.0.0.0", port |-> 3260])}
    /\ auth = {}
    /\ initiator = {}
    /\ target = {}
    /\ groups = {}
    /\ extent = {}
    /\ targettoextent = {}
    /\ files = {}
    /\ sessions = {}
    /\ system_ips = {"10.0.0.1"}
    /\ service_started = FALSE
    /\ last = NoCall
    /\ nops = 0
    /\ pending = NoPending

NextScst ==
    \/ \E data \in TargetDataPlain :
          /\ Cardinality(target) < MaxTargets
          /\ TargetCreate(data, {CompressGroup(g) : g \in Range(data.groups)})
          /\ UNCHANGED <<nops, pending>>
    \/ \E id \in Ids(target) : \E force, scst_ok \in BOOLEAN :
          TargetDelete(id, force, scst_ok) /\ UNCHANGED <<nops, pending>>
    \/ \E name \in ServedNames :
          service_started /\ SessionChange(name) /\ UNCHANGED <<nops, pending>>
    \/ ServiceChange /\ UNCHANGED <<nops, pending>>

SpecScst == InitScst /\ [][NextScst]_vars

-----------------------------------------------------------------------------
(* Extent creates, with and without a serial, whose random draws hit the   *)
(* serials of the store or miss them.                                      *)

MaxExtents == 3

SerialDrawsAny == [1..tries -> {"serial1", "0123456789abcde"}]

ExtentDataSerial ==
    [name : {"extent2", "extent3"}, type : {"DISK"}, disk : {"zvol/tank/vol1"},
     path : {NullStr}, serial : {NullStr, "given"}, filesize : {0},
     blocksize : {512}]

InitSerial ==
    /\ portal = {}
    /\ portalip = {}
    /\ auth = {}
    /\ initiator = {}
    /\ target = {}
    /\ groups = {}
    /\ extent = {DiskExtent(1)}
    /\ targettoextent = {}
    /\ files = {}
    /\ sessions = {}
    /\ system_ips = {"10.0.0.1"}
    /\ service_started = TRUE
    /\ last = NoCall
    /\ nops = 0
    /\ pending = NoPending

NextSerial ==
    \/ \E data \in ExtentDataSerial : \E draws \in SerialDrawsAny :
          /\ Cardinality(extent) < MaxExtents
          /\ ExtentCreate(data, draws) /\ UNCHANGED <<nops, pending>>
    \/ \E id \in Ids(extent) : ExtentDelete(id, FALSE, FALSE) /\ UNCHANGED <<nops, pending>>

SpecSerial == InitSerial /\ [][NextSerial]_vars

-----------------------------------------------------------------------------
(* The target service's create and update with the portal service's       *)
(* create, update and delete, over a store of two portals; the groups a    *)
(* target is given name a portal once or twice and portals that are there  *)
(* or not.                                                                 *)

PortalDataGrp ==
    {[listen |-> {[ip |-> i, port |-> 3260]},
      discovery_authmethod |-> "NONE", discovery_authgroup |-> NULL] :
        i \in {"0.0.0.0", "10.0.0.1"}}

GroupListsPortal ==
    {<<Group(1, "NONE", NULL)>>,
     <<Group(2, "NONE", NULL)>>,
     <<Group(1, "NONE", NULL), Group(2, "NONE", NULL)>>,
     <<Group(1, "NONE", NULL), Group(1, "CHAP", 1)>>,
     <<Group(3, "NONE", NULL)>>}

TargetDataPortal ==
    {[name |-> n, alias |-> NullStr, mode |-> "ISCSI", groups |-> g] :
        n \in {"t1", "t2"}, g \in GroupListsPortal}

InitRefs ==
    /\ portal = {PortalOf(1, 1), PortalOf(2, 2)}
    /\ portalip = {PortalIPRow(1, [ip |-> "0.0.0.0", port |-> 3260]),
                   PortalIPRow(2, [ip |-> "10.0.0.1", port |-> 3260])}
    /\ auth = {Credential(1, 1, "")}
    /\ initiator = {}
    /\ target = {}
    /\ groups = {}
    /\ extent = {}
    /\ targettoextent = {}
    /\ files = {}
    /\ sessions = {}
    /\ system_ips = {"10.0.0.1"}
    /\ service_started = TRUE
    /\ last = NoCall
    /\ nops = 0
    /\ pending = NoPending

NextRefs ==
    \/ \E data \in TargetDataPortal :
       \E done \in SUBSET {CompressGroup(g) : g \in Range(data.groups)} :
          /\ Cardinality(target) < MaxTargets
          /\ TargetCreate(data, done) /\ UNCHANGED <<nops, pending>>
    \/ \E id \in Ids(target) : \E data \in TargetDataPortal :
          TargetUpdate(id, data) /\ UNCHANGED <<nops, pending>>
    \/ \E data \in PortalDataGrp :
          /\ Cardinality(portal) < MaxPortals
          /\ PortalCreate(data, data.listen) /\ UNCHANGED <<nops, pending>>
    \/ \E pk \in Ids(portal) : \E data \in PortalDataGrp :
          PortalUpdate(pk, data) /\ UNCHANGED <<nops, pending>>
    \/ \E id \in Ids(portal) : PortalDelete(id) /\ UNCHANGED <<nops, pending>>

SpecRefs == InitRefs /\ [][NextRefs]_vars

-----------------------------------------------------------------------------
(* The target service's create and update with the initiator service's    *)
(* create, update and delete, over a store of one portal and one           *)
(* initiator; every group a target is given names an initiator.            *)

GroupOf(ptl, ini) ==
    [portal |-> ptl, initiator |-> ini, authmethod |-> "NONE", auth |-> NULL]

TargetDataInitiator ==
    {[name |-> n, alias |-> NullStr, mode |-> "ISCSI", groups |-> <<GroupOf(1, i)>>] :
        n \in {"t1", "t2"}, i \in {1, 2, 3}}

InitiatorDataRef ==
    [initiators : {<<>>, <<"iqn.1991-05.com.microsoft:host">>},
     auth_network : {<<>>}]

InitInitiators ==
    /\ portal = {PortalOf(1, 1)}
    /\ portalip = {PortalIPRow(1, [ip |-> "0.0.0.0", port |-> 3260])}
    /\ auth = {}
    /\ initiator = {InitiatorRow(1, [initiators |-> <<>>, auth_network |-> <<>>])}
    /\ target = {}
    /\ groups = {}
    /\ extent = {}
    /\ targettoextent = {}
    /\ files = {}
    /\ sessions = {}
    /\ system_ips = {"10.0.0.1"}
    /\ service_started = TRUE
    /\ last = NoCall
    /\ nops = 0
    /\ pending = NoPending

NextInitiators ==
    \/ \E data \in TargetDataInitiator :
       \E done \in SUBSET {CompressGroup(g) : g \in Range(data.groups)} :
          /\ Cardinality(target) < MaxTargets
          /\ TargetCreate(data, done) /\ UNCHANGED <<nops, pending>>
    \/ \E id \in Ids(target) : \E data \in TargetDataInitiator :
          TargetUpdate(id, data) /\ UNCHANGED <<nops, pending>>
    \/ \E data \in InitiatorDataRef :
          /\ Cardinality(initiator) < MaxTargets
          /\ InitiatorCreate(data) /\ UNCHANGED <<nops, pending>>
    \/ \E id \in Ids(initiator) : \E data \in InitiatorDataRef :
          InitiatorUpdate(id, data) /\ UNCHANGED <<nops, pending>>
    \/ \E id \in Ids(initiator) : InitiatorDelete(id) /\ UNCHANGED <<nops, pending>>

SpecInitiators == InitInitiators /\ [][NextInitiators]_vars

-----------------------------------------------------------------------------
(* Target creates and updates whose names and aliases meet those of the    *)
(* store or not.                                                           *)

TargetDataNames ==
    [name : {"t1", "t2", "t3"}, alias : {NullStr, "a1", "a2"}, mode : {"ISCSI"},
     groups : {<<>>}]

NextNames ==
    \/ \E data \in TargetDataNames :
          /\ Cardinality(target) < MaxTargets
          /\ TargetCreate(data, {}) /\ UNCHANGED <<nops, pending>>
    \/ \E id \in Ids(target) : \E data \in TargetDataNames :
          TargetUpdate(id, data) /\ UNCHANGED <<nops, pending>>

SpecNames == InitScst /\ [][NextNames]_vars

-----------------------------------------------------------------------------
(* Credential creates, updates and deletes whose secrets and peer secrets  *)
(* are one character short of, at the ends of and one character past the   *)
(* lengths allowed, with and without a peer user.                          *)

AuthDataLengths ==
    {AuthData(1, "user", sec, pu, ps) :
        sec \in {"elevenchars", "twelve-chars", "sixteen-chars-16", "seventeen-chars17"},
        pu \in {"", "peer"},
        ps \in {"", "twelve-chars", "peer-eleven", "peer-secret1",
                "peer-secret-16ch", "peer-secret-17chr"}}

NextCreds ==
    \/ \E data \in AuthDataLengths :
          /\ Cardinality(auth) < MaxCreds - 1
          /\ AuthCreate(data) /\ UNCHANGED <<nops, pending>>
    \/ \E id \in Ids(auth) : \E data \in AuthDataLengths :
          AuthUpdate(id, data) /\ UNCHANGED <<nops, pending>>
    \/ \E id \in Ids(auth) : AuthDelete(id) /\ UNCHANGED <<nops, pending>>

SpecCreds == InitScst /\ [][NextCreds]_vars

-----------------------------------------------------------------------------
(* Initiator creates, updates and deletes with lists of no, one and two    *)
(* names and networks; the names are what List('initiators') takes, any    *)
(* string.                                                                 *)

InitiatorDataLists ==
    [initiators : {<<>>, <<"iqn.1991-05.com.microsoft:host">>,
                   <<"iqn.2000-01.com.a:h1", "iqn.2000-01.com.a:h2">>,
                   <<"ALL">>, <<"host one">>},
     auth_network : {<<>>, <<"10.0.0.0/24">>, <<"10.0.0.0/24", "192.168.0.0/16">>}]

NextLists ==
    \/ \E data \in InitiatorDataLists :
          /\ Cardinality(initiator) < MaxTargets
          /\ InitiatorCreate(data) /\ UNCHANGED <<nops, pending>>
    \/ \E id \in Ids(initiator) : \E data \in InitiatorDataLists :
          InitiatorUpdate(id, data) /\ UNCHANGED <<nops, pending>>
    \/ \E id \in Ids(initiator) : InitiatorDelete(id) /\ UNCHANGED <<nops, pending>>

SpecLists == InitScst /\ [][NextLists]_vars

-----------------------------------------------------------------------------
(* Association creates and deletes over a store of two targets and two     *)
(* extents, while sessions on the targets come and go.                     *)

NextTeDel ==
    \/ \E data \in TeData(Ids(target), Ids(extent), {NULL, 1}) :
          /\ Cardinality(targettoextent) < MaxAssocs
          /\ TeCreate(data) /\ UNCHANGED <<nops, pending>>
    \/ \E id \in Ids(targettoextent) : \E force \in BOOLEAN :
          TeDelete(id, force) /\ UNCHANGED <<nops, pending>>
    \/ \E name \in ServedNames : SessionChange(name) /\ UNCHANGED <<nops, pending>>

SpecTeDel == InitAssoc /\ [][NextTeDel]_vars

-----------------------------------------------------------------------------
(* The Association service over two stores of two targets: one where every *)
(* LUN of the LUN map is in use on the first target and none on the        *)
(* second, with an extent more than the first target binds, and one with   *)
(* that extent alone and no Association. The calls give no LUN, one        *)
(* outside the map or one at its ends, and name the spare extent; updates  *)
(* and deletes name the rows written last.                                 *)

EdgeLuns == {NULL, -2, 0, lun_map_size - 1, lun_map_size}

SpareExtent == lun_map_size + 1

EdgeIds ==
    IF Cardinality(targettoextent) < lun_map_size - 1
    THEN Ids(targettoextent)
    ELSE {SpareExtent} \cap Ids(targettoextent)

InitFull ==
    /\ portal = {}
    /\ portalip = {}
    /\ auth = {}
    /\ initiator = {}
    /\ target = {TargetRow(1, "t1", NullStr, "iscsi"), TargetRow(2, "t2", NullStr, "iscsi")}
    /\ groups = {}
    /\ \/ /\ extent = {DiskExtent(SpareExtent)}
          /\ targettoextent = {}
       \/ /\ extent = {DiskExtent(i) : i \in 1..SpareExtent}
          /\ targettoextent = {TeRow(i, 1, i, i - 1) : i \in 1..lun_map_size}
    /\ files = {}
    /\ sessions = {}
    /\ system_ips = {"10.0.0.1"}
    /\ service_started = TRUE
    /\ last = NoCall
    /\ nops = 0
    /\ pending = NoPending

NextFull ==
    \/ \E data \in TeData(Ids(target), {SpareExtent}, EdgeLuns) :
          /\ Cardinality(targettoextent) < lun_map_size + 1
          /\ TeCreate(data) /\ UNCHANGED <<nops, pending>>
    \/ \E id \in EdgeIds :
       \E data \in TeData(Ids(target), {SpareExtent}, EdgeLuns \ {NULL}) :
          TeUpdate(id, data) /\ UNCHANGED <<nops, pending>>
    \/ \E id \in EdgeIds \cup ({lun_map_size} \cap Ids(targettoextent)) :
          TeDelete(id, FALSE) /\ UNCHANGED <<nops, pending>>

SpecFull == InitFull /\ [][NextFull]_vars

-----------------------------------------------------------------------------
(* Extent deletes, with and without the removal of the file and with and   *)
(* without force, over a store of two targets and of FILE extents on one   *)
(* path, while Associations are made and sessions come and go.             *)

FileExtent(id) ==
    ExtentRow(id, "extent" \o ToString(id), "serial" \o ToString(id),
              "0x6589cfc000000" \o ToString(id), "FILE", "/mnt/tank/f1", 0, 512)

ExtentDataFile ==
    [name : {"extent1", "extent2"}, type : {"FILE"}, disk : {NullStr},
     path : {"/mnt/tank/f1"}, serial : {NullStr}, filesize : {0, 1024},
     blocksize : {512}]

SerialDrawsFresh == [i \in 1..tries |-> "serial" \o ToString(i)]

InitExtDel ==
    /\ portal = {PortalOf(1, 1)}
    /\ portalip = {PortalIPRow(1, [ip |-> "0.0.0.0", port |-> 3260])}
    /\ auth = {}
    /\ initiator = {}
    /\ target = {TargetRow(1, "t1", NullStr, "iscsi"), TargetRow(2, "t2", NullStr, "iscsi")}
    /\ groups = {GroupRow(1, CompressGroup(Group(1, "NONE", NULL))),
                 GroupRow(2, CompressGroup(Group(1, "NONE", NULL)))}
    /\ extent = {FileExtent(1), FileExtent(2)}
    /\ targettoextent = {}
    /\ files = {"/mnt/tank/f1"}
    /\ sessions = {}
    /\ system_ips = {"10.0.0.1"}
    /\ service_started = TRUE
    /\ last = NoCall
    /\ nops = 0
    /\ pending = NoPending

NextExtDel ==
    \/ \E data \in ExtentDataFile :
          /\ Cardinality(extent) < MaxExtents - 1
          /\ ExtentCreate(data, SerialDrawsFresh) /\ UNCHANGED <<nops, pending>>
    \/ \E data \in TeData(Ids(target), Ids(extent), {NULL}) :
          /\ Cardinality(targettoextent) < MaxAssocs
          /\ TeCreate(data) /\ UNCHANGED <<nops, pending>>
    \/ \E id \in Ids(extent) : \E remove, force \in BOOLEAN :
          ExtentDelete(id, remove, force) /\ UNCHANGED <<nops, pending>>
    \/ \E name \in ServedNames : SessionChange(name) /\ UNCHANGED <<nops, pending>>

SpecExtDel == InitExtDel /\ [][NextExtDel]_vars

-----------------------------------------------------------------------------
(* The filesystem-attachment cleanup over a store of two targets with a    *)
(* group each and three extents, which Association creates bind.           *)

InitAttach ==
    /\ portal = {PortalOf(1, 1)}
    /\ portalip = {PortalIPRow(1, [ip |-> "0.0.0.0", port |-> 3260])}
    /\ auth = {}
    /\ initiator = {}
    /\ target = {TargetRow(1, "t1", NullStr, "iscsi"), TargetRow(2, "t2", NullStr, "iscsi")}
    /\ groups = {GroupRow(1, CompressGroup(Group(1, "NONE", NULL))),
                 GroupRow(2, CompressGroup(Group(1, "NONE", NULL)))}
    /\ extent = {DiskExtent(1), DiskExtent(2), DiskExtent(3)}
    /\ targettoextent = {}
    /\ files = {}
    /\ sessions = {}
    /\ system_ips = {"10.0.0.1"}
    /\ service_started = TRUE
    /\ last = NoCall
    /\ nops = 0
    /\ pending = NoPending

NextAttach ==
    \/ \E data \in TeData(Ids(target), Ids(extent), {NULL}) :
          /\ Cardinality(targettoextent) < MaxAssocs
          /\ TeCreate(data) /\ UNCHANGED <<nops, pending>>
    \/ \E atts \in SUBSET Ids(extent) : \E scst_ok \in BOOLEAN :
          AttachmentDelete(atts, scst_ok) /\ UNCHANGED <<nops, pending>>

SpecAttach == InitAttach /\ [][NextAttach]_vars

-----------------------------------------------------------------------------
(* The target service's create and update over a store of two portals and  *)
(* any of a few credential tables, with group lists of every               *)
(* authentication method, in both orders.                                  *)

AuthStores ==
    {{},
     {Credential(1, 1, "")},
     {Credential(1, 1, "peer")},
     {Credential(1, 1, ""), Credential(2, 1, "peer")},
     {Credential(1, 1, "peer"), Credential(2, 1, "")}}

GroupListsAuth ==
    {<<>>,
     <<Group(1, "CHAP", 1), Group(2, "NONE", NULL)>>,
     <<Group(2, "NONE", NULL), Group(1, "CHAP", 1)>>,
     <<Group(1, "CHAP", NULL)>>,
     <<Group(2, "CHAP_MUTUAL", NULL)>>,
     <<Group(1, "CHAP_MUTUAL", 1)>>,
     <<Group(1, "CHAP", 2)>>}

TargetDataAuth ==
    {[name |-> n, alias |-> NullStr, mode |-> "ISCSI", groups |-> g] :
        n \in {"t1", "t2"}, g \in GroupListsAuth}

InitGroups ==
    /\ portal = {PortalOf(1, 1), PortalOf(2, 2)}
    /\ portalip = {PortalIPRow(1, [ip |-> "0.0.0.0", port |-> 3260]),
                   PortalIPRow(2, [ip |-> "10.0.0.1", port |-> 3260])}
    /\ auth \in AuthStores
    /\ initiator = {}
    /\ target = {}
    /\ groups = {}
    /\ extent = {}
    /\ targettoextent = {}
    /\ files = {}
    /\ sessions = {}
    /\ system_ips = {"10.0.0.1"}
    /\ service_started = TRUE
    /\ last = NoCall
    /\ nops = 0
    /\ pending = NoPending

NextGroups ==
    \/ \E data \in TargetDataAuth :
          /\ Cardinality(target) < MaxTargets
          /\ TargetCreate(data, {CompressGroup(g) : g \in Range(data.groups)})
          /\ UNCHANGED <<nops, pending>>
    \/ \E id \in Ids(target) : \E data \in TargetDataAuth :
          TargetUpdate(id, data) /\ UNCHANGED <<nops, pending>>

SpecGroups == InitGroups /\ [][NextGroups]_vars

-----------------------------------------------------------------------------
(* Every service together: MaxOps calls, in any order and one at a time,   *)
(* on a store that holds a row of each table.                              *)

PortalDataAll ==
    {[listen |-> l, discovery_authmethod |-> a[1], discovery_authgroup |-> a[2]] :
        l \in {{}, {[ip |-> "0.0.0.0", port |-> 3260]},
               {[ip |-> "10.0.0.1", port |-> 3261]}},
        a \in {<<"NONE", NULL>>, <<"CHAP", 1>>, <<"CHAP", NULL>>}}

AuthDataAll ==
    {AuthData(t, "user", sec, pu, ps) :
        t \in {1, 2}, sec \in {"short", "secret-12-chars"}, pu \in {"", "peer"},
        ps \in {"", "peersecret-13"}}

InitiatorDataAll ==
    [initiators : {<<>>, <<"iqn.1991-05.com.microsoft:host">>},
     auth_network : {<<>>, <<"10.0.0.0/24">>}]

TargetDataAll ==
    {[name |-> n, alias |-> a, mode |-> m, groups |-> g] :
        n \in {"t1", "t2", "Bad Name"}, a \in {NullStr, "target"},
        m \in {"ISCSI"},
        g \in {<<>>, <<Group(1, "NONE", NULL)>>, <<Group(1, "CHAP", NULL)>>}}

ExtentDataAll ==
    [name : {"extent1", "extent2"}, type : {"DISK", "FILE"},
     disk : {NullStr, "zvol/tank/vol1"}, path : {"/mnt/tank/f1"},
     serial : {NullStr, "quo\"te"}, filesize : {0, 1024}, blocksize : {512}]

SerialDraws == {[i \in 1..tries |-> "0123456789abcde"]}

Tick == nops < MaxOps /\ nops' = nops + 1 /\ UNCHANGED pending

Init ==
    /\ portal = {PortalRow(1, 1, [discovery_authmethod |-> "CHAP",
                                  discovery_authgroup |-> 1])}
    /\ portalip = {PortalIPRow(1, [ip |-> "0.0.0.0", port |-> 3260])}
    /\ auth = {AuthRow(1, AuthData(1, "user", "secret-12-chars", "", ""))}
    /\ initiator = {}
    /\ target = {TargetRow(1, "t1", NullStr, "iscsi")}
    /\ groups = {GroupRow(1, CompressGroup(Group(1, "NONE", NULL)))}
    /\ extent = {DiskExtent(1)}
    /\ targettoextent = {TeRow(1, 1, 1, 0)}
    /\ files = {}
    /\ sessions = {}
    /\ system_ips = {"10.0.0.1"}
    /\ service_started = TRUE
    /\ last = NoCall
    /\ nops = 0
    /\ pending = NoPending

Next ==
    \/ \E data \in PortalDataAll : \E done \in {{}, data.listen} :
          PortalCreate(data, done) /\ Tick
    \/ \E pk \in Ids(portal) : \E data \in PortalDataAll :
          PortalUpdate(pk, data) /\ Tick
    \/ \E id \in Ids(portal) : PortalDelete(id) /\ Tick
    \/ \E data \in AuthDataAll : AuthCreate(data) /\ Tick
    \/ \E id \in Ids(auth) : \E data \in AuthDataAll : AuthUpdate(id, data) /\ Tick
    \/ \E id \in Ids(auth) : AuthDelete(id) /\ Tick
    \/ \E data \in InitiatorDataAll : InitiatorCreate(data) /\ Tick
    \/ \E id \in Ids(initiator) : \E data \in InitiatorDataAll :
          InitiatorUpdate(id, data) /\ Tick
    \/ \E id \in Ids(initiator) : InitiatorDelete(id) /\ Tick
    \/ \E data \in TargetDataAll :
       \E done \in {{}, {CompressGroup(g) : g \in Range(data.groups)}} :
          TargetCreate(data, done) /\ Tick
    \/ \E id \in Ids(target) : \E data \in TargetDataAll :
          TargetUpdate(id, data) /\ Tick
    \/ \E id \in Ids(target) : \E force, scst_ok \in BOOLEAN :
          TargetDelete(id, force, scst_ok) /\ Tick
    \/ \E data \in ExtentDataAll : \E draws \in SerialDraws :
          ExtentCreate(data, draws) /\ Tick
    \/ \E id \in Ids(extent) : \E data \in ExtentDataAll : \E draws \in SerialDraws :
          ExtentUpdate(id, data, draws) /\ Tick
    \/ \E id \in Ids(extent) : \E remove, force \in BOOLEAN :
          ExtentDelete(id, remove, force) /\ Tick
    \/ \E data \in TeData(Ids(target), Ids(extent), {NULL, 0, 16383}) :
          TeCreate(data) /\ Tick
    \/ \E id \in Ids(targettoextent) :
       \E data \in TeData(Ids(target), Ids(extent), {0, 1}) :
          TeUpdate(id, data) /\ Tick
    \/ \E id \in Ids(targettoextent) : \E force \in BOOLEAN :
          TeDelete(id, force) /\ Tick
    \/ \E name \in ServedNames : SessionChange(name) /\ Tick

Spec == Init /\ [][Next]_vars

-----------------------------------------------------------------------------
(* Properties. *)

Tags == {p.tag : p \in portal}

Mex(used) == Min((0..Cardinality(used)) \ used)

(* C2: an Association created without a LUN gets the smallest non-negative *)
(* integer no Association of the same target used before the call.         *)
C2_LunGapFill ==
    [][(/\ last'.op = "targetextent.create"
        /\ last'.raised = "none"
        /\ last'.args.lunid = NULL
        /\ targettoextent' # targettoextent)
       => LET r == Row(targettoextent', last'.id)
          IN r.lunid = Mex(TargetLuns(targettoextent, r.target))]_vars

(* The target used LUNs {0, 1, 3} and the new Association got LUN 2. *)
C2_Witness ==
    /\ last.op = "targetextent.create"
    /\ last.raised = "none"
    /\ last.args.lunid = NULL
    /\ Row(targettoextent, last.id).lunid = 2
    /\ TargetLuns(targettoextent, 1) = {0, 1, 2, 3}

(* C3: no two Associations of the same target have the same LUN. *)
C3_LunUniquePerTarget ==
    \A a, b \in targettoextent :
        (a.target = b.target /\ a.lunid = b.lunid) => a.id = b.id

(* C4: no two Associations have the same (target, extent) pair. *)
C4_PairUnique ==
    \A a, b \in targettoextent :
        (a.target = b.target /\ a.extent = b.extent) => a.id = b.id

(* An update that moved an Association onto the pair of another one and    *)
(* that the table's unique index turned down.                              *)
C4_Witness ==
    /\ last.op = "targetextent.update"
    /\ last.raised = "Exception"
    /\ \E r \in targettoextent :
          /\ r.id # last.id
          /\ r.target = last.args.target
          /\ r.extent = last.args.extent

ListenUnique ==
    \A a, b \in portalip : (a.ip = b.ip /\ a.port = b.port) => a.portal = b.portal

(* The listen list of the call holds a pair stored for another portal. *)
ListenClash(call, ips) ==
    \E i \in call.args.listen : \E r \in ips :
        /\ r.ip = i.ip
        /\ r.port = i.port
        /\ (call.op = "portal.update" => r.portal # call.id)

(* C5: no (ip, port) pair is stored for two portals, and a portal create   *)
(* or update is turned down with an in-use error exactly when its listen   *)
(* list holds a pair stored for another portal.                            *)
C5_ListenUnique ==
    /\ []ListenUnique
    /\ [][(last'.op \in {"portal.create", "portal.update"})
             => (Err("listen", "in use") \in last'.verrors
                    <=> ListenClash(last', portalip))]_vars

(* A create turned down for a pair of another portal, which holds the same *)
(* address on one port only.                                               *)
C5_Witness ==
    /\ last.op = "portal.create"
    /\ last.verrors = {Err("listen", "in use")}
    /\ \E r \in portalip : r.ip = "10.0.0.1" /\ r.port = 3260
    /\ ~\E r \in portalip : r.ip = "10.0.0.1" /\ r.port = 3261

(* C6: when a Portal create or a Target create fails in its child         *)
(* reconciliation, the store holds neither the new parent row nor a child  *)
(* row that carries the parent's id.                                       *)
C6_CreateRollback ==
    /\ (last.op = "portal.create" /\ last.raised = "Exception")
          => /\ last.id \notin Ids(portal)
             /\ ~\E r \in portalip : r.portal = last.id
    /\ (last.op = "target.create" /\ last.raised = "Exception")
          => /\ last.id \notin Ids(target)
             /\ ~\E g \in groups : g.target = last.id

(* The create and update operations of the five validating services. *)
ValidatingOps ==
    {"portal.create", "portal.update", "auth.create", "auth.update",
     "target.create", "target.update", "extent.create", "extent.update",
     "targetextent.create", "targetextent.update"}

(* C7: a create or update of a Portal, AuthCredential, Target, Extent or   *)
(* Association whose validation recorded an error raises the recorded      *)
(* errors, changes no row of the store and sends no reload notification.   *)
C7_ValidationAborts ==
    [][(last'.op \in ValidatingOps /\ last'.verrors # {})
       => /\ last'.raised = "ValidationErrors"
          /\ UNCHANGED tables
          /\ "reload" \notin Range(last'.trace)]_vars

(* The create, update and delete operations of the six services. *)
MutatingOps ==
    {e \o "." \o o :
        e \in {"portal", "auth", "initiator", "target", "extent", "targetextent"},
        o \in {"create", "update", "delete"}}

(* The last position of a store write in a trace of events, 0 if none. *)
LastWrite(trace) ==
    Max({0} \cup {i \in 1..Len(trace) : trace[i] \notin {"reload", "scstadmin", "scstadmin failed"}})

(* C8: a create, update or delete of any of the six entities that returns  *)
(* has sent a reload notification after its last store write.              *)
C8_ReloadAfterWrite ==
    (last.op \in MutatingOps /\ last.raised = "none")
        => \E i \in 1..Len(last.trace) :
              last.trace[i] = "reload" /\ i > LastWrite(last.trace)

(* The targets whose Associations all bind extent `id`, at least one. *)
SoleBacked(tes, id) ==
    {t \in target : {r.extent : r \in {x \in tes : x.target = t.id}} = {id}}

(* C9 as claimed: an Extent delete removes the Associations of a target    *)
(* the extent was the sole backing store of, and then that target.         *)
C9_ExtentDeleteRemovesTarget ==
    [][(last'.op = "extent.delete" /\ last'.raised = "none" /\ extent' # extent)
       => \A t \in SoleBacked(targettoextent, last'.id) :
             /\ ~\E r \in targettoextent' : r.target = t.id
             /\ t.id \notin Ids(target')]_vars

(* C9 as amended: an Extent delete removes the extent and every            *)
(* Association of it, and leaves every target and every group in place,    *)
(* the targets it was the sole backing store of included.                  *)
C9_ExtentDeleteKeepsTarget ==
    [][(last'.op = "extent.delete" /\ last'.raised = "none" /\ extent' # extent)
       => /\ last'.id \notin Ids(extent')
          /\ targettoextent' = {r \in targettoextent : r.extent # last'.id}
          /\ target' = target
          /\ groups' = groups]_vars

(* The extent deleted was the only backing store of the only target, which *)
(* is still there without an Association.                                  *)
C9_Witness ==
    /\ last.op = "extent.delete"
    /\ last.raised = "none"
    /\ last.trace = <<"targettoextent.delete", "reload", "extent.delete", "reload">>
    /\ Cardinality(target) = 1
    /\ targettoextent = {}

(* A target is in use: there is a live session on the name it is served    *)
(* under.                                                                  *)
InUse(t) == QualifiedName(t.name) \in sessions

(* C10: a delete of a target in use raises a conflict error and changes    *)
(* no row when force is false, and with force set it returns and the       *)
(* target, its groups and its Associations are gone.                       *)
C10_TargetDeleteForce ==
    [][(last'.op = "target.delete" /\ last'.id \in Ids(target)
        /\ InUse(Row(target, last'.id)))
       => IF last'.args.force
          THEN /\ last'.raised = "none"
               /\ last'.id \notin Ids(target')
               /\ ~\E g \in groups' : g.target = last'.id
               /\ ~\E r \in targettoextent' : r.target = last'.id
          ELSE /\ last'.raised = "CallError"
               /\ UNCHANGED tables]_vars

(* A forced delete of a target in use that had a group and an Association. *)
C10_Witness ==
    /\ last.op = "target.delete"
    /\ last.args.force
    /\ last.raised = "none"
    /\ Len(last.trace) >= 6
    /\ sessions # {}
    /\ target = {}

ChildDeletes == {"portalip.delete", "groups.delete"}

ChildInserts == {"portalip.insert", "groups.insert"}

PrimaryWrites == {"portal.insert", "portal.update", "target.insert", "target.update"}

ParentOps == {"portal.create", "portal.update", "target.create", "target.update"}

(* C12: in a Portal or Target create or update, every delete of an         *)
(* obsolete child row is issued before any insert of a new child row.      *)
C12_DeletesBeforeInserts ==
    (last.op \in ParentOps)
        => \A i, j \in 1..Len(last.trace) :
              (last.trace[i] \in ChildDeletes /\ last.trace[j] \in ChildInserts)
                  => i < j

(* C13: a Portal or Target create or update that returns has written the   *)
(* primary row before any child row of it was inserted or deleted, and     *)
(* sent the reload after all of them.                                      *)
C13_PrimaryBeforeChildren ==
    (last.op \in ParentOps /\ last.raised = "none")
        => \E k \in 1..Len(last.trace) :
              /\ last.trace[k] \in PrimaryWrites
              /\ \A j \in 1..Len(last.trace) :
                    (last.trace[j] \in ChildDeletes \cup ChildInserts) => k < j
              /\ last.trace[Len(last.trace)] = "reload"

(* The addresses portal `pk` listens on. *)
ListenIps(ips, pk) == {i.ip : i \in PortalListen(ips, pk)}

(* C14: a Portal update never rejects as not configured an address the     *)
(* portal listened on before the update, and rejects an address that is    *)
(* new in the update and not configured on the system.                     *)
C14_StaleListenKept ==
    [][(last'.op = "portal.update" /\ system_ips' = system_ips)
       => \A i \in last'.args.listen :
             /\ (i.ip \in ListenIps(portalip, last'.id))
                   => Err("listen", NotConfigured(i.ip)) \notin last'.verrors
             /\ (i.ip \notin ListenIps(portalip, last'.id)
                 /\ i.ip \notin listen_ip_choices)
                   => Err("listen", NotConfigured(i.ip)) \in last'.verrors]_vars

(* Credential `id` is the only one of its tag. *)
OnlyOfTag(id) ==
    \A a \in auth : a.tag = Row(auth, id).tag => a.id = id

(* A portal's discovery auth group or a target group's auth is the tag. *)
TagReferenced(tag) ==
    \/ \E p \in portal : p.discoveryauthgroup = tag
    \/ \E g \in groups : g.authgroup = tag

(* The step is a delete of a credential or an update of it to another tag. *)
TagGivenUp ==
    /\ last'.op \in {"auth.delete", "auth.update"}
    /\ last'.id \in Ids(auth)
    /\ last'.op = "auth.update" => last'.args.tag # Row(auth, last'.id).tag

(* C15 as claimed: a credential whose tag is referenced cannot be deleted  *)
(* or given another tag, unless no other credential has the tag.           *)
C15_BlockedUnlessAlone ==
    [][(/\ TagGivenUp
        /\ TagReferenced(Row(auth, last'.id).tag)
        /\ ~OnlyOfTag(last'.id))
       => /\ last'.raised # "none"
          /\ UNCHANGED tables]_vars

(* C15 as amended: a credential whose tag is referenced cannot be deleted  *)
(* or given another tag when no other credential has the tag, and the      *)
(* store is left as it was; when another credential has the tag, the       *)
(* delete and the tag change go through.                                   *)
C15_BlockedWhenAlone ==
    [][TagGivenUp
       => IF TagReferenced(Row(auth, last'.id).tag) /\ OnlyOfTag(last'.id)
          THEN /\ last'.raised # "none"
               /\ UNCHANGED tables
          ELSE /\ last'.raised = "none"
               /\ last'.op = "auth.delete" => last'.id \notin Ids(auth')
               /\ last'.op = "auth.update"
                     => Row(auth', last'.id).tag = last'.args.tag]_vars

(* A delete turned down for the only credential of a tag a target group    *)
(* references.                                                             *)
C15_Witness ==
    /\ last.op = "auth.delete"
    /\ last.raised = "CallError"
    /\ OnlyOfTag(last.id)
    /\ \E g \in groups : g.authgroup = Row(auth, last.id).tag

(* The call ran scstadmin, whatever its exit status. *)
ScstRun(call) ==
    "scstadmin" \in Range(call.trace) \/ "scstadmin failed" \in Range(call.trace)

(* The step is a delete of a target of the store. *)
TargetDeleteStep ==
    /\ last'.op = "target.delete"
    /\ last'.id \in Ids(target)
    /\ service_started' = service_started
    /\ sessions' = sessions

(* C16 as claimed: scstadmin is run only by a Target delete called with    *)
(* force while the service is running, never by one called without force.  *)
C16_ScstOnlyForced ==
    [][TargetDeleteStep
       => (ScstRun(last') => (last'.args.force /\ service_started))]_vars

(* C16 as amended: a Target delete runs scstadmin exactly when it goes     *)
(* through while the service is running, with force or without.            *)
C16_ScstWhenRunning ==
    [][TargetDeleteStep
       => (ScstRun(last') <=> (service_started /\ last'.raised = "none"))]_vars

(* A delete without force, of a target without a session, that ran         *)
(* scstadmin.                                                              *)
C16_Witness ==
    /\ last.op = "target.delete"
    /\ ~last.args.force
    /\ last.raised = "none"
    /\ ScstRun(last)

(* The draws of the call, of the first five, that are no serial of the     *)
(* store.                                                                  *)
FreeDraws(call) ==
    {i \in 1..5 : call.args.draws[i] \notin {e.serial : e \in extent}}

(* C17: an Extent create without a serial takes the first of at most five  *)
(* random draws that is no serial of an existing extent, the fifth         *)
(* included; when all five are, it fails with an error and writes no row.  *)
C17_SerialDraws ==
    [][(last'.op = "extent.create" /\ last'.args.serial = NullStr)
       => IF FreeDraws(last') = {}
          THEN /\ last'.raised = "CallError"
               /\ UNCHANGED tables
               /\ files' = files
          ELSE /\ last'.raised # "CallError"
               /\ last'.raised = "none"
                     => Row(extent', last'.id).serial
                            = last'.args.draws[Min(FreeDraws(last'))]]_vars

(* A create whose first four draws were the serial of an extent and that   *)
(* took the fifth.                                                         *)
C17_Witness ==
    /\ last.op = "extent.create"
    /\ last.raised = "none"
    /\ last.args.serial = NullStr
    /\ \A i \in 1..4 : last.args.draws[i] = "serial1"
    /\ Row(extent, last.id).serial = "0123456789abcde"
    /\ \E e \in extent : e.serial = "serial1"

(* The validation errors of the call on the auth field of its group i. *)
AuthFieldErrs(call, i) == {e \in call.verrors : e[1] = GroupField(i, "auth")}

C19_MutualNeedsPeer ==
    [][(last'.op \in {"target.create", "target.update"})
       => \A i \in DOMAIN last'.args.groups :
             LET group == last'.args.groups[i]
             IN (group.authmethod = "CHAP_MUTUAL" /\ group.auth # NULL)
                   => (AuthFieldErrs(last', i) = {}
                          <=> \E a \in auth : /\ a.tag = group.auth
                                               /\ a.peeruser # "")]_vars

(* The positions of the events of `evs` in a trace. *)
Positions(trace, evs) == {i \in 1..Len(trace) : trace[i] \in evs}

(* C20: the filesystem-attachment cleanup of a set of Extents deletes      *)
(* every Association of them and the Extents, and after that exactly the   *)
(* Targets that lost an Association in it and have none left.              *)
C20_OrphanTargets ==
    [][(last'.op = "attachment.delete" /\ extent' # extent)
       => LET atts == last'.args.extents
              lost == {r.target : r \in {x \in targettoextent : x.extent \in atts}}
          IN /\ targettoextent' = {r \in targettoextent : r.extent \notin atts}
             /\ Ids(extent') = Ids(extent) \ atts
             /\ Ids(target') = Ids(target)
                    \ {t \in lost : ~\E r \in targettoextent' : r.target = t}
             /\ \A i \in Positions(last'.trace, {"target.delete"}) :
                \A j \in Positions(last'.trace,
                                   {"targettoextent.delete", "extent.delete"}) :
                    j < i]_vars

(* A cleanup of one extent that two targets were bound to: the target of   *)
(* that extent alone is gone, the one with another extent is still there.  *)
C20_Witness ==
    /\ last.op = "attachment.delete"
    /\ Cardinality(last.args.extents) = 1
    /\ Cardinality(Positions(last.trace, {"targettoextent.delete"})) = 2
    /\ Cardinality(Positions(last.trace, {"target.delete"})) = 1
    /\ Cardinality(target) = 1
    /\ targettoextent # {}

(* The extent has an Association whose target is in use. *)
ExtentInUse(id) ==
    \E r \in targettoextent :
        r.extent = id /\ r.target \in Ids(target) /\ InUse(Row(target, r.target))

(* The delete asks for the removal of a file that is not on disk. *)
UnlinkFails(call) ==
    /\ call.args.remove
    /\ Row(extent, call.id).type = "FILE"
    /\ Row(extent, call.id).path \notin files

ExtentDeleteStep(id) ==
    last'.op = "extent.delete" /\ last'.id = id /\ id \in Ids(extent)

(* C21 as claimed: a delete of an extent in use raises an error and leaves *)
(* the extent and the Associations as they are when force is false, and    *)
(* with force set the extent and every Association of it are deleted.      *)
C21_ExtentDeleteForce ==
    [][\A id \in Ids(extent) : (ExtentDeleteStep(id) /\ ExtentInUse(id))
       => IF last'.args.force
          THEN /\ id \notin Ids(extent')
               /\ ~\E r \in targettoextent' : r.extent = id
          ELSE /\ last'.raised = "CallError"
               /\ extent' = extent
               /\ targettoextent' = targettoextent]_vars

(* C21 as amended: the same, but a forced delete that was asked to remove  *)
(* a file it cannot remove raises an error and deletes nothing.            *)
C21_ExtentDeleteForceUnlessUnlink ==
    [][\A id \in Ids(extent) : (ExtentDeleteStep(id) /\ ExtentInUse(id))
       => IF last'.args.force /\ ~UnlinkFails(last')
          THEN /\ last'.raised = "none"
               /\ id \notin Ids(extent')
               /\ ~\E r \in targettoextent' : r.extent = id
          ELSE /\ last'.raised = "CallError"
               /\ extent' = extent
               /\ targettoextent' = targettoextent]_vars

(* A forced delete of an extent that had an Association, with both targets *)
(* in use.                                                                 *)
C21_Witness ==
    /\ last.op = "extent.delete"
    /\ last.args.force
    /\ last.raised = "none"
    /\ "targettoextent.delete" \in Range(last.trace)
    /\ Cardinality(sessions) = 2

(* C22: a delete of an Association whose target is in use raises an error  *)
(* and leaves the Association when force is false and deletes it when      *)
(* force is set; with the target not in use the Association is deleted     *)
(* whatever force is.                                                      *)
C22_AssocDeleteForce ==
    [][\A id \in Ids(targettoextent) :
         (last'.op = "targetextent.delete" /\ last'.id = id /\ sessions' = sessions)
         => IF InUse(Row(target, Row(targettoextent, id).target)) /\ ~last'.args.force
            THEN /\ last'.raised = "CallError"
                 /\ targettoextent' = targettoextent
            ELSE /\ last'.raised = "none"
                 /\ targettoextent' = targettoextent \ {Row(targettoextent, id)}]_vars

(* A forced delete of an Association went through with both targets in    *)
(* use.                                                                    *)
C22_Witness ==
    /\ last.op = "targetextent.delete"
    /\ last.args.force
    /\ last.raised = "none"
    /\ Cardinality(sessions) = 2

(* C23: after a Target delete or an Extent delete that went through, no    *)
(* Association names the deleted Target or Extent and no group row names   *)
(* the deleted Target.                                                     *)
C23_DeleteCascades ==
    /\ (last.op = "target.delete" /\ last.raised = "none")
       => /\ last.id \notin Ids(target)
          /\ ~\E r \in targettoextent : r.target = last.id
          /\ ~\E g \in groups : g.target = last.id
    /\ (last.op = "extent.delete" /\ last.raised = "none")
       => /\ last.id \notin Ids(extent)
          /\ ~\E r \in targettoextent : r.extent = last.id

(* A target with an Association and groups was deleted while another       *)
(* target keeps its Association and its groups.                            *)
C23_Witness ==
    /\ last.op = "target.delete"
    /\ last.raised = "none"
    /\ "targettoextent.delete" \in Range(last.trace)
    /\ targettoextent # {}
    /\ groups # {}

(* C24: every group row names a portal that is there, and no target has    *)
(* two groups on one portal.                                               *)
C24_GroupPortals ==
    /\ \A g \in groups : g.portal \in Ids(portal)
    /\ \A g, h \in groups : (g.target = h.target /\ g.portal = h.portal) => g = h

(* A portal delete took the groups of a target with it: every target is    *)
(* created and updated with a group at least.                              *)
C24_Witness ==
    /\ last.op = "portal.delete"
    /\ \E t \in target : ~\E g \in groups : g.target = t.id

C26_NamesUnique ==
    \A t, u \in target :
        t.id # u.id => /\ t.name # u.name
                       /\ t.alias # NullStr => t.alias # u.alias

(* Two targets with an alias each, and a call refused for the alias of the *)
(* other.                                                                  *)
C26_Witness ==
    /\ Cardinality(target) = 2
    /\ \A t \in target : t.alias # NullStr
    /\ last.raised = "ValidationErrors"
    /\ Err("alias", "exists") \in last.verrors

(* The LUNs of the LUN map. *)
LunMap == 0..16382

(* The call gives a LUN outside the map, or gives none when the target has *)
(* every LUN of the map in use.                                            *)
LunUnavailable(call) ==
    IF call.args.lunid = NULL
    THEN LunMap \subseteq {r.lunid : r \in {x \in targettoextent :
                                               x.target = call.args.target}}
    ELSE call.args.lunid \notin LunMap

(* C27: every Association stored has its LUN in [0, 16382]; a create or    *)
(* update that gives a LUN outside it, or a create that gives none for a   *)
(* target with every LUN in use, is refused with an error on lunid.        *)
C27_LunRange ==
    /\ [](\A r \in targettoextent : r.lunid \in LunMap)
    /\ [][(/\ last' # last
           /\ last'.op \in {"targetextent.create", "targetextent.update"}
           /\ LunUnavailable(last'))
          => /\ last'.raised = "ValidationErrors"
             /\ \E e \in last'.verrors : e[1] = "lunid"
             /\ targettoextent' = targettoextent]_vars

(* A create without a LUN for the target with every LUN in use was refused *)
(* for the LUN it was given.                                               *)
C27_Witness ==
    /\ last.op = "targetextent.create"
    /\ last.args.lunid = NULL
    /\ last.args.target = 1
    /\ Cardinality({r \in targettoextent : r.target = 1}) = 16383
    /\ last.raised = "ValidationErrors"
    /\ Err("lunid", "out of range") \in last.verrors

(* The lengths a secret may have. *)
SecretLengths == 12..16

(* What the claim asks of a credential. *)
CredentialOk(data) ==
    /\ Len(data.secret) \in SecretLengths
    /\ (data.peeruser = "") <=> (data.peersecret = "")
    /\ data.peersecret # ""
       => /\ data.peersecret # data.secret
          /\ Len(data.peersecret) \in SecretLengths

(* C28: the validation of a credential reports no error exactly when the   *)
(* secret has 12 to 16 characters, peer user and peer secret are both      *)
(* empty or both set, and a peer secret that is set differs from the       *)
(* secret and has 12 to 16 characters.                                     *)
C28_CredentialValid ==
    last.op \in {"auth.create", "auth.update"}
    => ((last.verrors = {}) <=> CredentialOk(last.args))

(* A credential with a peer user and a peer secret of 16 characters was    *)
(* stored, and one with a secret of 12 characters.                         *)
C28_Witness ==
    /\ last.op = "auth.create"
    /\ last.raised = "none"
    /\ last.args.peeruser # ""
    /\ Len(last.args.peersecret) = 16
    /\ \E a \in auth : Len(a.secret) = 12

(* C29: the initiator read back after a create or an update has the        *)
(* initiators list and the auth_network list that were written.            *)
C29_ListsRoundTrip ==
    last.op \in {"initiator.create", "initiator.update"}
    => /\ InitiatorGet(last.id).initiators = last.args.initiators
       /\ InitiatorGet(last.id).auth_network = last.args.auth_network

(* C30: a Target delete whose scstadmin run exits with a non-zero status   *)
(* returns all the same, the target row is gone and the reload of the      *)
(* service is the call it ends with.                                       *)
C30_ScstFailureIgnored ==
    (last.op = "target.delete" /\ "scstadmin failed" \in Range(last.trace))
    => /\ last.raised = "none"
       /\ last.id \notin Ids(target)
       /\ last.trace[Len(last.trace)] = "reload"
       /\ last.trace[Len(last.trace) - 1] = "scstadmin failed"

(* A delete whose scstadmin run failed, with another target still served.  *)
C30_Witness ==
    /\ last.op = "target.delete"
    /\ "scstadmin failed" \in Range(last.trace)
    /\ last.raised = "none"
    /\ target # {}

-----------------------------------------------------------------------------
(* The portal service's update and the target service's create and update  *)
(* over a store of two portals: listen lists of one or two pairs and group *)
(* lists of none, one or two groups, in both orders.                       *)

PortalDataSave ==
    {[listen |-> l, discovery_authmethod |-> "NONE", discovery_authgroup |-> NULL] :
        l \in {s \in SUBSET ListenPairs : Cardinality(s) \in 1..2}}

GroupListsSave ==
    {<<>>,
     <<Group(1, "NONE", NULL)>>,
     <<Group(1, "CHAP", 1), Group(2, "NONE", NULL)>>,
     <<Group(2, "NONE", NULL), Group(1, "CHAP", 1)>>,
     <<Group(2, "CHAP", 1)>>}

TargetDataSave ==
    {[name |-> n, alias |-> NullStr, mode |-> "ISCSI", groups |-> g] :
        n \in {"t1", "t2"}, g \in GroupListsSave}

NextSave ==
    \/ \E data \in TargetDataSave :
          /\ Cardinality(target) < MaxTargets
          /\ TargetCreate(data, {CompressGroup(g) : g \in Range(data.groups)})
          /\ UNCHANGED <<nops, pending>>
    \/ \E id \in Ids(target) : \E data \in TargetDataSave :
          TargetUpdate(id, data) /\ UNCHANGED <<nops, pending>>
    \/ \E pk \in Ids(portal) : \E data \in PortalDataSave :
          PortalUpdate(pk, data) /\ UNCHANGED <<nops, pending>>

SpecSave == InitRefs /\ [][NextSave]_vars

(* The rows of a child table that belong to other parents than pk. *)
ListenOfOthers(ips, pk) == {r \in ips : r.portal # pk}
GroupsOfOthers(grps, pk) == {r \in grps : r.target # pk}

(* C31: after a successful Portal update the stored listen pairs of the    *)
(* portal are, as a set, the listen list of the update, and after a        *)
(* successful Target update the stored groups of the target are, as a set, *)
(* the groups of the update; the child rows of every other portal and      *)
(* target are the ones stored before.                                      *)
C31_ChildRowsReconciled ==
    [][/\ (last'.op = "portal.update" /\ last'.raised = "none")
          => /\ PortalListen(portalip', last'.id) = last'.args.listen
             /\ ListenOfOthers(portalip', last'.id)
                    = ListenOfOthers(portalip, last'.id)
             /\ groups' = groups
       /\ (last'.op = "target.update" /\ last'.raised = "none")
          => /\ TargetGroups(groups', last'.id) = Range(last'.args.groups)
             /\ GroupsOfOthers(groups', last'.id)
                    = GroupsOfOthers(groups, last'.id)
             /\ portalip' = portalip]_vars

(* A Portal update that replaced a pair while the other portal listens,    *)
(* in a store where a target has two groups after an update of its own.    *)
C31_Witness ==
    /\ last.op = "portal.update"
    /\ last.raised = "none"
    /\ "portalip.insert" \in Range(last.trace)
    /\ "portalip.delete" \in Range(last.trace)
    /\ ListenOfOthers(portalip, last.id) # {}
    /\ \E t \in target : Cardinality(TargetGroups(groups, t.id)) = 2
    /\ Cardinality(target) = 2

-----------------------------------------------------------------------------
(* ISCSIPortalService.do_create for caller p, one step per await: the      *)
(* method gives way to other callers at every datastore call. The queries  *)
(* of __validate are one step.                                             *)

PortalCreateValidate(p, data) ==
    LET verrors == PortalValidate(data, "iscsiportal_create", NULL, FALSE, {})
    IN
    /\ pending[p] = Idle
    /\ IF verrors # {}
       THEN /\ last' = Call("portal.create", NULL, data, verrors,
                            "ValidationErrors", <<>>)
            /\ UNCHANGED pending
       ELSE /\ pending' = [pending EXCEPT ![p] = [pc |-> "portal.count", data |-> data]]
            /\ UNCHANGED last
    /\ UNCHANGED <<tables, env, nops>>

(* data['tag'] = datastore.query(..., {'count': True}) + 1 *)
PortalCreateCount(p) ==
    /\ pending[p].pc = "portal.count"
    /\ pending' = [pending EXCEPT ![p] =
                      [pc |-> "portal.insert", data |-> pending[p].data,
                       tag |-> PortalNewTag]]
    /\ UNCHANGED <<tables, env, last, nops>>

(* pk = datastore.insert(...) *)
PortalCreateInsert(p) ==
    LET pk == NewId(portal)
    IN
    /\ pending[p].pc = "portal.insert"
    /\ portal' = portal \cup {PortalRow(pk, pending[p].tag, pending[p].data)}
    /\ pending' = [pending EXCEPT ![p] =
                      [pc |-> "portal.listen", data |-> pending[p].data,
                       tag |-> pending[p].tag, pk |-> pk,
                       todo |-> pending[p].data.listen]]
    /\ UNCHANGED <<portalip, auth, initiator, target, groups, extent,
                   targettoextent, env, last, nops>>

(* One datastore.insert of __save_listen. The unique index on (ip, port)   *)
(* refuses a pair that is stored: the exception makes do_create delete     *)
(* the portal row and raise.                                               *)
PortalCreateListen(p) ==
    LET call == pending[p]
    IN
    /\ call.pc = "portal.listen"
    /\ \E i \in call.todo :
          IF \E r \in portalip : r.ip = i.ip /\ r.port = i.port
          THEN /\ portal' = {r \in portal : r.id # call.pk}
               /\ UNCHANGED portalip
               /\ pending' = [pending EXCEPT ![p] = Idle]
               /\ last' = Call("portal.create", call.pk, call.data, {}, "Exception",
                               <<"portal.insert">>
                               \o Repeat("portalip.insert",
                                         Cardinality(call.data.listen \ call.todo))
                               \o <<"portalip.insert failed", "portal.delete">>)
          ELSE /\ portalip' = portalip \cup {PortalIPRow(call.pk, i)}
               /\ portal' = portal
               /\ pending' = [pending EXCEPT ![p].todo = call.todo \ {i}]
               /\ last' = last
    /\ UNCHANGED <<auth, initiator, target, groups, extent, targettoextent,
                   env, nops>>

(* _service_change and the return of do_create. *)
PortalCreateReturn(p) ==
    LET call == pending[p]
    IN
    /\ call.pc = "portal.listen"
    /\ call.todo = {}
    /\ pending' = [pending EXCEPT ![p] = Idle]
    /\ last' = Call("portal.create", call.pk, call.data, {}, "none",
                    <<"portal.insert">>
                    \o Repeat("portalip.insert", Cardinality(call.data.listen))
                    \o <<"reload">>)
    /\ UNCHANGED <<tables, env, nops>>

(* Two callers creating portals at once, on a store with no portal. *)
NextPortalRace ==
    \/ \E p \in Procs : \E data \in PortalDataStale :
          /\ Cardinality(portal) < MaxPortals
          /\ PortalCreateValidate(p, data)
    \/ \E p \in Procs : PortalCreateCount(p)
    \/ \E p \in Procs : PortalCreateInsert(p)
    \/ \E p \in Procs : PortalCreateListen(p)
    \/ \E p \in Procs : PortalCreateReturn(p)

SpecPortalRace == InitPortal /\ [][NextPortalRace]_vars

(* C32: when the creates of two callers have returned, however their       *)
(* datastore calls were interleaved, no two portals have the same tag and  *)
(* the tags of the portals are 1..N.                                       *)
C32_ConcurrentTags ==
    (\A p \in Procs : pending[p] = Idle)
    => /\ \A a, b \in portal : a.id # b.id => a.tag # b.tag
       /\ {r.tag : r \in portal} = 1..Cardinality(portal)

-----------------------------------------------------------------------------
(* iSCSITargetToExtentService.do_create for caller p, one step per await.  *)

(* validate: the query of the target's LUNs and the LUN chosen from it. *)
TeCreateQuery(p, data) ==
    /\ pending[p] = Idle
    /\ pending' = [pending EXCEPT ![p] =
                      [pc |-> "te.check", data |-> data, lunid |-> TeLun(data)]]
    /\ UNCHANGED <<tables, env, last, nops>>

(* validate: the range check and the two queries for a LUN and a pair      *)
(* that are taken, taken as one step; do_create raises their errors.       *)
TeCreateCheck(p) ==
    LET call == pending[p]
        data == [call.data EXCEPT !.lunid = call.lunid]
        verrors == TeValidate(data, FALSE, data)
    IN
    /\ call.pc = "te.check"
    /\ IF verrors # {}
       THEN /\ last' = Call("targetextent.create", NULL, call.data, verrors,
                            "ValidationErrors", <<>>)
            /\ pending' = [pending EXCEPT ![p] = Idle]
       ELSE /\ pending' = [pending EXCEPT ![p].pc = "te.insert"]
            /\ UNCHANGED last
    /\ UNCHANGED <<tables, env, nops>>

(* datastore.insert, which the unique index on (target, extent) may        *)
(* refuse, then _service_change and the return.                            *)
TeCreateInsert(p) ==
    LET call == pending[p]
        row == TeRow(NewId(targettoextent), call.data.target, call.data.extent,
                     call.lunid)
    IN
    /\ call.pc = "te.insert"
    /\ pending' = [pending EXCEPT ![p] = Idle]
    /\ IF ~TeIndexOk(targettoextent, row)
       THEN /\ last' = Call("targetextent.create", NULL, call.data, {}, "Exception",
                            <<"targettoextent.insert failed">>)
            /\ UNCHANGED targettoextent
       ELSE /\ targettoextent' = targettoextent \cup {row}
            /\ last' = Call("targetextent.create", row.id, call.data, {}, "none",
                            <<"targettoextent.insert", "reload">>)
    /\ UNCHANGED <<portal, portalip, auth, initiator, target, groups, extent,
                   env, nops>>

(* Two callers giving extents to one target at once, with no LUN named. *)
NextLunRace ==
    \/ \E p \in Procs : \E data \in TeData(Ids(target), Ids(extent), {NULL}) :
          /\ Cardinality(targettoextent) < MaxLuns
          /\ TeCreateQuery(p, data)
    \/ \E p \in Procs : TeCreateCheck(p)
    \/ \E p \in Procs : TeCreateInsert(p)

SpecLunRace == InitLun /\ [][NextLunRace]_vars

(* C33: Associations of one target created without a LUN, by callers whose *)
(* datastore calls interleave, have different LUNs.                        *)
C33_ConcurrentLuns ==
    \A a, b \in targettoextent :
        (a.id # b.id /\ a.target = b.target) => a.lunid # b.lunid

-----------------------------------------------------------------------------
(* The credential service and the portal service, one call at a time, on   *)
(* a store of one credential: portals are given no discovery auth group,   *)
(* the tag of a credential that may be there, or 0.                        *)

PortalDataDiscovery ==
    {[listen |-> {[ip |-> i, port |-> 3260]},
      discovery_authmethod |-> a[1], discovery_authgroup |-> a[2]] :
        i \in {"0.0.0.0", "10.0.0.1"},
        a \in {<<"NONE", NULL>>, <<"NONE", 0>>, <<"NONE", 1>>,
               <<"CHAP", 1>>, <<"CHAP_MUTUAL", 2>>}}

NextDiscovery ==
    \/ \E data \in AuthDataTags :
          /\ Cardinality(auth) < MaxCreds
          /\ AuthCreate(data) /\ UNCHANGED <<nops, pending>>
    \/ \E id \in Ids(auth) : \E data \in AuthDataTags :
          AuthUpdate(id, data) /\ UNCHANGED <<nops, pending>>
    \/ \E id \in Ids(auth) : AuthDelete(id) /\ UNCHANGED <<nops, pending>>
    \/ \E data \in PortalDataDiscovery :
          /\ Cardinality(portal) < MaxPortals
          /\ PortalCreate(data, data.listen) /\ UNCHANGED <<nops, pending>>
    \/ \E pk \in Ids(portal) : \E data \in PortalDataDiscovery :
          PortalUpdate(pk, data) /\ UNCHANGED <<nops, pending>>
    \/ \E id \in Ids(portal) : PortalDelete(id) /\ UNCHANGED <<nops, pending>>

SpecDiscovery == InitPortal /\ [][NextDiscovery]_vars

(* C34: every portal whose discovery auth group is not null has a          *)
(* credential of that tag.                                                 *)
C34_DiscoveryGroupExists ==
    \A p \in portal :
        p.discoveryauthgroup # NULL
        => \E a \in auth : a.tag = p.discoveryauthgroup

-----------------------------------------------------------------------------
(* The target service's create and update with the credential service,     *)
(* one call at a time, on a store of two portals and one credential.       *)

NextChap ==
    \/ \E data \in TargetDataAuth :
          /\ Cardinality(target) < MaxTargets
          /\ TargetCreate(data, {CompressGroup(g) : g \in Range(data.groups)})
          /\ UNCHANGED <<nops, pending>>
    \/ \E id \in Ids(target) : \E data \in TargetDataAuth :
          TargetUpdate(id, data) /\ UNCHANGED <<nops, pending>>
    \/ \E data \in AuthDataTags :
          /\ Cardinality(auth) < MaxCreds
          /\ AuthCreate(data) /\ UNCHANGED <<nops, pending>>
    \/ \E id \in Ids(auth) : \E data \in AuthDataTags :
          AuthUpdate(id, data) /\ UNCHANGED <<nops, pending>>
    \/ \E id \in Ids(auth) : AuthDelete(id) /\ UNCHANGED <<nops, pending>>

SpecChap == InitRefs /\ [][NextChap]_vars

(* C35: every group stored with the CHAP or the CHAP Mutual method has an  *)
(* auth value that is the tag of a credential.                             *)
C35_GroupAuthExists ==
    \A g \in groups :
        g.authtype \in {"CHAP", "CHAP Mutual"}
        => \E a \in auth : a.tag = g.authgroup

-----------------------------------------------------------------------------
(* ISCSIPortalListenDelegate. The state the delegate is given is a list of *)
(* rows of services.iscsitargetportalip, each with the ip to write; a row  *)
(* of the list is the stored row the datastore finds by its id.            *)

(* The table without its unique index. *)
PortalIPNoIndex(ips, row, new) == TRUE

(* The unique index of services.iscsitargetportalip on (ip, port): whether *)
(* the datastore takes the rewrite of `row` as `new`.                      *)
PortalIPIndexOk(ips, row, new) ==
    ~\E r \in ips \ {row} : r.ip = new.ip /\ r.port = new.port

(* The loop of datastore.update calls over the state, from item i on: the  *)
(* table it leaves, the number of updates made and whether one was         *)
(* refused, which ends the loop with the exception.                        *)
RECURSIVE ListenUpdates(_, _, _)
ListenUpdates(ips, state, i) ==
    IF i > Len(state)
    THEN [rows |-> ips, made |-> i - 1, ok |-> TRUE]
    ELSE LET row == state[i].row
             new == [row EXCEPT !.ip = state[i].ip]
         IN IF PortalIPIndexOk(ips, row, new)
            THEN ListenUpdates((ips \ {row}) \cup {new}, state, i + 1)
            ELSE [rows |-> ips, made |-> i - 1, ok |-> FALSE]

(* What the two methods share: the loop, then _service_change. *)
ListenWrite(op, state) ==
    LET res == ListenUpdates(portalip, state, 1)
    IN
    /\ portalip' = res.rows
    /\ last' = Call(op, NULL, [state |-> state], {},
                    IF res.ok THEN "none" ELSE "Exception",
                    Repeat("portalip.update", res.made)
                    \o (IF res.ok THEN <<"reload">> ELSE <<"portalip.update failed">>))
    /\ UNCHANGED <<portal, auth, initiator, target, groups, extent, targettoextent>>
    /\ UNCHANGED env

(* ISCSIPortalListenDelegate.set_listen_state *)
set_listen_state(state) == ListenWrite("listen.set_state", state)

(* ISCSIPortalListenDelegate.reset_listens: the ip of every row of the     *)
(* state becomes 0.0.0.0.                                                  *)
reset_listens(state) ==
    ListenWrite("listen.reset",
                [i \in DOMAIN state |-> [row |-> state[i].row, ip |-> "0.0.0.0"]])

(* The lists of one to three stored rows, no row twice, each with one of   *)
(* the addresses.                                                          *)
ListenAddrs == {"0.0.0.0", "10.0.0.1", "10.0.0.9"}

ListenStates ==
    {st \in UNION {[1..n -> [row : portalip, ip : ListenAddrs]] : n \in 1..3} :
        \A i, j \in DOMAIN st : i # j => st[i].row # st[j].row}

InitListen ==
    /\ portal = {PortalOf(1, 1), PortalOf(2, 2)}
    /\ portalip = {PortalIPRow(1, [ip |-> "10.0.0.1", port |-> 3260]),
                   PortalIPRow(1, [ip |-> "10.0.0.9", port |-> 3261]),
                   PortalIPRow(2, [ip |-> "10.0.0.9", port |-> 3260])}
    /\ auth = {}
    /\ initiator = {}
    /\ target = {}
    /\ groups = {}
    /\ extent = {}
    /\ targettoextent = {}
    /\ files = {}
    /\ sessions = {}
    /\ system_ips = {"10.0.0.1", "10.0.0.9"}
    /\ service_started = TRUE
    /\ last = NoCall
    /\ nops = 0
    /\ pending = NoPending

NextListen ==
    \/ \E state \in ListenStates :
          reset_listens(state) /\ UNCHANGED <<nops, pending>>
    \/ \E state \in ListenStates :
          set_listen_state(state) /\ UNCHANGED <<nops, pending>>

SpecListen == InitListen /\ [][NextListen]_vars

(* C36: no two stored listen rows have the same (ip, port) after the       *)
(* delegate's reset_listens and set_listen_state, and a reset_listens that *)
(* returned has left every row it was given on 0.0.0.0.                    *)
C36_ListenPairsUnique ==
    /\ \A a, b \in portalip : (a.ip = b.ip /\ a.port = b.port) => a = b
    /\ Cardinality(portalip) = 3
    /\ (last.op = "listen.reset" /\ last.raised = "none")
       => \A i \in DOMAIN last.args.state :
              [last.args.state[i].row EXCEPT !.ip = "0.0.0.0"] \in portalip

(* A reset that returned after rewriting two rows, and left alone a third  *)
(* that has the port of one of them.                                       *)
C36_Witness ==
    /\ last.op = "listen.reset"
    /\ last.raised = "none"
    /\ Len(last.args.state) = 2
    /\ \A i \in DOMAIN last.args.state : last.args.state[i].row.ip # "0.0.0.0"
    /\ \E r \in portalip : r.ip # "0.0.0.0" /\ r.port = 3260
    /\ \E r \in portalip : r.ip = "0.0.0.0" /\ r.port = 3260

-----------------------------------------------------------------------------
(* C37: a step that changes the tag of a portal that is there before and   *)
(* after it is a Portal delete of another portal; so a Portal create, a    *)
(* Portal update and every call of the other services leave the tag of     *)
(* every portal as it was, the updated portal's own included.              *)
C37_TagsChangeOnDeleteOnly ==
    [][\A p \in portal : \A q \in portal' :
          (p.id = q.id /\ p.tag # q.tag)
          => /\ last'.op = "portal.delete"
             /\ last'.id \in Ids(portal)
             /\ last'.id \notin Ids(portal')
             /\ last'.id # p.id]_vars

(* A delete of the first portal has moved the portal created after it to   *)
(* tag 1.                                                                  *)
C37_Witness ==
    /\ last.op = "portal.delete"
    /\ last.id = 1
    /\ \E p \in portal : p.id = 2 /\ p.tag = 1

-----------------------------------------------------------------------------
(* The extent service's create and update on a store of one extent: the    *)
(* serial is left out, given new, or given as the extent has it, and the   *)
(* random draws are in use or not.                                         *)

NextExtUpd ==
    \/ \E data \in ExtentDataSerial : \E draws \in SerialDrawsAny :
          /\ Cardinality(extent) < MaxExtents - 1
          /\ ExtentCreate(data, draws) /\ UNCHANGED <<nops, pending>>
    \/ \E id \in Ids(extent) : \E data \in ExtentDataSerial :
       \E serial \in {Row(extent, id).serial, data.serial} :
       \E draws \in {SerialDrawsFresh, [i \in 1..tries |-> "serial1"]} :
          /\ ExtentUpdate(id, [data EXCEPT !.serial = serial], draws)
          /\ UNCHANGED <<nops, pending>>

SpecExtUpd == InitSerial /\ [][NextExtUpd]_vars

(* C38: an Extent update that returned has left the NAA of the extent as   *)
(* it was, and its serial too when the serial of the update is the stored  *)
(* one; the serial written by a create or an update is the one given when  *)
(* one is given, and a drawn one that no extent had when none is; the NAA  *)
(* of a created extent is one no extent had.                               *)
C38_SerialAndNaaKept ==
    [][/\ (last'.op = "extent.update" /\ last'.raised = "none")
          => LET old == Row(extent, last'.id)
                 new == Row(extent', last'.id)
             IN /\ new.naa = old.naa
                /\ last'.args.serial = old.serial => new.serial = old.serial
                /\ last'.args.serial # NullStr => new.serial = last'.args.serial
       /\ (last'.op = "extent.create" /\ last'.raised = "none")
          => LET new == Row(extent', last'.id)
             IN /\ \A e \in extent : e.naa # new.naa
                /\ IF last'.args.serial # NullStr
                   THEN new.serial = last'.args.serial
                   ELSE /\ new.serial \in Range(last'.args.draws)
                        /\ \A e \in extent : e.serial # new.serial]_vars

(* An update that gave the extent another name and left out the serial,    *)
(* on an extent whose serial a create had drawn.                           *)
C38_Witness ==
    /\ last.op = "extent.update"
    /\ last.raised = "none"
    /\ Row(extent, last.id).serial = "0123456789abcde"
    /\ last.args.serial = "0123456789abcde"
    /\ Row(extent, last.id).name = "extent3"
    /\ Cardinality(extent) = 2

====
